---- MODULE Spec2Model ----
(***************************************************************************)
(* azure-devops-mcp: the tool handlers (user_story_tools.py,               *)
(* test_case_tools.py), the transport client (client.py) and the response  *)
(* parser (parsers.py, models.py) as one state machine.                    *)
(*                                                                         *)
(* One handler call is in progress at a time.  A handler call is a chain   *)
(* of steps: Invoke runs the handler up to its first HTTP request, each    *)
(* *Attempt action is one attempt of the request in flight (the remote     *)
(* service or the network answers it), followed by everything the client   *)
(* and the handler do with that answer up to the next request or return.   *)
(* Another party may change the remote work item between any two steps.    *)
(*                                                                         *)
(* Spec is that machine, started with the client main() builds.            *)
(* ParserSpec calls the two parsers directly on raw records of any shape.  *)
(* ClientSpec imports config.py and builds the client in any environment,  *)
(* then calls create_work_item directly on any field map.                  *)
(***************************************************************************)
EXTENDS Integers, Sequences, FiniteSets, TLC

VARIABLES
    remote,   \* the remote service's work item under the identifier of the
              \* running by-id call (Absent: it holds none)
    session,  \* AzureDevOpsClient.session and the client's attributes
    pc,       \* "idle": no handler running; "http": a request is in flight;
              \* "done": the handler has returned, the dispatcher holds ret
    cur,      \* the frame of the running (or last) handler call
    req,      \* the HTTP request in flight
    attempt,  \* retries urllib3's Retry has used for the request in flight
    reqlog,   \* HTTP requests sent by the running (or last) handler call
    calls,    \* transport client operations invoked by that handler call
    ret,      \* what the last handler call gave back to the dispatcher
    env,      \* the process environment and file system config.py and
              \* _configure_ssl read
    config,   \* the module config.py: not imported, imported, or failed
    unit      \* the direct call of a parser or of create_work_item, if one
              \* was made: its arguments and what it gave

vars == <<remote, session, pc, cur, req, attempt, reqlog, calls, ret, env, config, unit>>

----------------------------------------------------------------------------
(* Bounds of the model *)

\* the remote service holds MaxId identifiers: 101, 102, ...
MaxId == 2
\* at most MaxArgs optional parameters of an update/create call are not None
MaxArgs == 2

(* Program constants: config.py *)
REQUEST_TIMEOUT == 30
RETRY_TOTAL == 3
RETRY_STATUS_FORCELIST == {429, 500, 502, 503, 504}
AZURE_DEVOPS_PROJECT == <<"Udemy">>

Ids == {100 + i : i \in 1 .. MaxId}

----------------------------------------------------------------------------
(* Python / JSON values.  A value carries its type tag first, so values of *)
(* different types are never compared beyond the tag.                      *)

JNull == <<"null">>
JStr(s) == <<"str", s>>
JInt(n) == <<"int", n>>
JDict(f) == <<"dict", f>>

IsNone(v) == v[1] = "null"

\* str(n) for an int
PyStrInt(n) == ToString(n)

\* A Python dict with insertion order: a sequence of <<key, value>> pairs.
DictKeys(d) == {d[i][1] : i \in 1 .. Len(d)}

\* d[k] = v: an existing key keeps its position, a new key is appended.
DictSet(d, k, v) ==
    IF k \in DictKeys(d)
    THEN [i \in 1 .. Len(d) |-> IF d[i][1] = k THEN <<k, v>> ELSE d[i]]
    ELSE Append(d, <<k, v>>)

\* seq[:top] of Python, top of either sign
PySlice(s, top) ==
    LET n == Len(s)
        hi == IF top >= 0 THEN (IF top < n THEN top ELSE n)
              ELSE (IF n + top > 0 THEN n + top ELSE 0)
    IN  SubSeq(s, 1, hi)

Min(a, b) == IF a < b THEN a ELSE b
Max(a, b) == IF a > b THEN a ELSE b

----------------------------------------------------------------------------
(* requests / urllib3 as client.py configures them (client.py:44-52):      *)
(* Retry(total, backoff_factor, status_forcelist) mounted on the session,  *)
(* every other Retry argument at its default.                              *)

Methods == {"GET", "POST", "PATCH"}

\* What can happen to one attempt of a request, besides an HTTP response.
NetFaults == {"ssl", "proxy", "refused", "connect_timeout", "read_timeout"}

\* The failure that occurred, in the words of the six kinds.
CauseOfFault(f) ==
    IF f = "ssl" THEN "tls"
    ELSE IF f = "proxy" THEN "proxy"
    ELSE IF f = "refused" THEN "connection"
    ELSE "timeout"

NoResp == [status |-> 0, text |-> "", valid |-> FALSE, ids |-> <<>>, value |-> <<>>]

Resp(status, text, valid, ids, value) ==
    [status |-> status, text |-> text, valid |-> valid, ids |-> ids, value |-> value]

NoExc == [cls |-> "", text |-> <<>>, resp |-> NoResp, cause |-> ""]

Exc(cls, text, resp, cause) ==
    [cls |-> cls, text |-> text, resp |-> resp, cause |-> cause]

\* isinstance(e, base): the class hierarchy of requests.exceptions
Bases(cls) ==
    IF cls = "SSLError" THEN {"SSLError", "ConnectionError", "RequestException", "Exception"}
    ELSE IF cls = "ProxyError" THEN {"ProxyError", "ConnectionError", "RequestException", "Exception"}
    ELSE IF cls = "ConnectTimeout" THEN {"ConnectTimeout", "ConnectionError", "Timeout", "RequestException", "Exception"}
    ELSE IF cls = "ReadTimeout" THEN {"ReadTimeout", "Timeout", "RequestException", "Exception"}
    ELSE IF cls = "ConnectionError" THEN {"ConnectionError", "RequestException", "Exception"}
    ELSE IF cls = "HTTPError" THEN {"HTTPError", "RequestException", "Exception"}
    ELSE IF cls = "RetryError" THEN {"RetryError", "RequestException", "Exception"}
    ELSE IF cls = "JSONDecodeError" THEN {"JSONDecodeError", "RequestException", "Exception"}
    ELSE {cls, "Exception"}

\* Retry's allowed_methods is left at its default: the idempotent methods.
MethodRetryable(method) ==
    method \in {"HEAD", "GET", "PUT", "DELETE", "OPTIONS", "TRACE"}

IsStatusRetry(method, status) ==
    MethodRetryable(method) /\ status \in RETRY_STATUS_FORCELIST

\* Whether Retry takes another attempt after this fault.
IsFaultRetry(method, fault) ==
    IF fault = "read_timeout" THEN MethodRetryable(method) ELSE TRUE

\* The exception HTTPAdapter.send raises for a fault, immediately (retried
\* FALSE) or once the retries are used up (MaxRetryError, retried TRUE).
FaultExc(fault, retried) ==
    IF fault = "ssl"
    THEN Exc("SSLError", <<"<certificate verify failed>">>, NoResp, "tls")
    ELSE IF fault = "proxy"
    THEN Exc("ProxyError", <<"<cannot connect to proxy>">>, NoResp, "proxy")
    ELSE IF fault = "refused"
    THEN Exc("ConnectionError", <<"<connection refused>">>, NoResp, "connection")
    ELSE IF fault = "connect_timeout"
    THEN Exc("ConnectTimeout", <<"<connect timed out>">>, NoResp, "timeout")
    ELSE IF retried
    THEN Exc("ConnectionError", <<"<max retries exceeded: read timed out>">>, NoResp, "timeout")
    ELSE Exc("ReadTimeout", <<"<read timed out>">>, NoResp, "timeout")

\* raise_on_status is left True: a forcelist status that outlives the
\* retries becomes MaxRetryError(ResponseError), which requests raises as
\* RetryError.
StatusExhaustedExc(resp) ==
    Exc("RetryError",
        <<"<max retries exceeded: too many ", PyStrInt(resp.status), " error responses>">>,
        resp, "http-status")

\* One attempt of session.request(method, ...): used retries so far, and
\* what happened to the attempt (a fault, or "none" and a response).
\*   act = "retry": another attempt follows; "response": the response is
\*   returned to client.py; "raise": the exception is raised into client.py.
SessionSend(method, used, fault, resp) ==
    IF fault # "none"
    THEN IF IsFaultRetry(method, fault)
         THEN IF used < RETRY_TOTAL
              THEN [act |-> "retry", resp |-> NoResp, exc |-> NoExc]
              ELSE [act |-> "raise", resp |-> NoResp, exc |-> FaultExc(fault, TRUE)]
         ELSE [act |-> "raise", resp |-> NoResp, exc |-> FaultExc(fault, FALSE)]
    ELSE IF IsStatusRetry(method, resp.status)
         THEN IF used < RETRY_TOTAL
              THEN [act |-> "retry", resp |-> NoResp, exc |-> NoExc]
              ELSE [act |-> "raise", resp |-> NoResp, exc |-> StatusExhaustedExc(resp)]
         ELSE [act |-> "response", resp |-> resp, exc |-> NoExc]

\* response.raise_for_status(): HTTPError for 4xx and 5xx, nothing else.
RaisesForStatus(resp) == resp.status >= 400 /\ resp.status < 600

HTTPErrorOf(resp) == Exc("HTTPError", <<"<http error>">>, resp, "http-status")

\* response.json() on a body that is not JSON
JSONErrorOf(resp) ==
    Exc("JSONDecodeError", <<"<expecting value>">>, resp,
        IF resp.status >= 200 /\ resp.status < 300 THEN "other" ELSE "http-status")

----------------------------------------------------------------------------
(* client.py: the except chain that ends every operation *)

ClientOps ==
    {"get_work_items", "get_work_item_by_id", "update_work_item",
     "search_work_items_by_title", "create_work_item", "get_work_items_by_state"}

\* Only get_work_items names the proxy variables in its message.
ProxyHint(op) ==
    IF op = "get_work_items"
    THEN ". Check your proxy settings (HTTP_PROXY, HTTPS_PROXY)"
    ELSE ". Check your proxy settings"

\* The message of the Exception the except chain raises for e: the first
\* clause whose class e is an instance of, in the order of the source.
ClassifyError(op, e) ==
    IF "SSLError" \in Bases(e.cls)
    THEN <<"SSL Error: ">> \o e.text
         \o <<". Try installing/updating certificates or set AZURE_DEVOPS_DISABLE_SSL_VERIFY=true for debugging (insecure)">>
    ELSE IF "ProxyError" \in Bases(e.cls)
    THEN <<"Proxy Error: ">> \o e.text \o <<ProxyHint(op)>>
    ELSE IF "ConnectionError" \in Bases(e.cls)
    THEN <<"Connection Error: ">> \o e.text \o <<". Check your network connection">>
    ELSE IF "Timeout" \in Bases(e.cls)
    THEN <<"Request timed out after ", PyStrInt(session.timeout), " seconds">>
    ELSE IF "HTTPError" \in Bases(e.cls)
    THEN <<"HTTP Error ", PyStrInt(e.resp.status), ": ", e.resp.text>>
    ELSE <<"Unexpected error: ">> \o e.text

\* The kind a caller reads off a raised message: its leading words.
ErrorKind(msg) ==
    IF msg = <<>> THEN "none"
    ELSE IF msg[1] = "SSL Error: " THEN "tls"
    ELSE IF msg[1] = "Proxy Error: " THEN "proxy"
    ELSE IF msg[1] = "Connection Error: " THEN "connection"
    ELSE IF msg[1] = "Request timed out after " THEN "timeout"
    ELSE IF msg[1] = "HTTP Error " THEN "http-status"
    ELSE IF msg[1] = "Unexpected error: " THEN "unclassified"
    ELSE "raw"

\* What a client operation gives its caller: a raised Exception(msg), or a
\* value: None (none), or a sequence of raw records (one for a single item).
\* cause records, for the properties only, the failure that occurred.
Raised(op, e) ==
    [raised |-> TRUE, msg |-> ClassifyError(op, e), cause |-> e.cause,
     none |-> FALSE, recs |-> <<>>]

Returned(recs) ==
    [raised |-> FALSE, msg |-> <<>>, cause |-> "", none |-> FALSE, recs |-> recs]

ReturnedNone ==
    [raised |-> FALSE, msg |-> <<>>, cause |-> "", none |-> TRUE, recs |-> <<>>]

Pending ==
    [raised |-> FALSE, msg |-> <<"<pending>">>, cause |-> "", none |-> FALSE, recs |-> <<>>]

----------------------------------------------------------------------------
(* parsers.py and models.py *)

EmptyDict == [k \in {} |-> JNull]

\* Mutant: every missing key reads as the empty string.
DGet_EmptyDefault(f, k, default) == IF k \in DOMAIN f THEN f[k] ELSE JStr("")

\* d.get(k, default) on the function of a dict
DGet(f, k, default) == IF k \in DOMAIN f THEN f[k] ELSE default

\* work_item_data.get("fields", {})
FieldsOf(raw) == DGet(raw, "fields", JDict(EmptyDict))

\* Mutant: the unique name of a structured identity is taken.
AssignedTo_UniqueName(f) ==
    IF "System.AssignedTo" \in DOMAIN f
    THEN LET a == f["System.AssignedTo"]
         IN  IF a[1] = "dict"
             THEN (IF "uniqueName" \in DOMAIN a[2] THEN a[2]["uniqueName"] ELSE JNull)
             ELSE a
    ELSE JNull

\* The assignee: displayName of a structured identity, the value itself
\* otherwise, None when the field is missing.
AssignedTo(f) ==
    IF "System.AssignedTo" \in DOMAIN f
    THEN LET a == f["System.AssignedTo"]
         IN  IF a[1] = "dict" THEN DGet(a[2], "displayName", JNull) ELSE a
    ELSE JNull

\* The integers a decimal string may stand for in a record.
Numerals == -9 .. 199

\* int(s) of pydantic's validation: the strings that are integer literals
IsNumeral(s) == \E n \in Numerals : PyStrInt(n) = s
NumeralValue(s) == CHOOSE n \in Numerals : PyStrInt(n) = s

\* pydantic's check of one field against its annotation.  A str field
\* takes a str only; an int field takes an int, and a str that is an
\* integer literal, which it converts.
ValidStr(v) == v[1] = "str"
ValidOptStr(v) == v[1] \in {"str", "null"}
ValidInt(v) == v[1] = "int" \/ (v[1] = "str" /\ IsNumeral(v[2]))
ValidOptInt(v) == v[1] = "null" \/ ValidInt(v)

\* The value an int field holds after validation.
AsInt(v) == IF v[1] = "str" THEN JInt(NumeralValue(v[2])) ELSE v

WorkItemKwargs(raw, f) ==
    [id |-> raw["id"],
     title |-> DGet(f, "System.Title", JStr("")),
     work_item_type |-> DGet(f, "System.WorkItemType", JStr("")),
     state |-> DGet(f, "System.State", JStr("")),
     assigned_to |-> AssignedTo(f),
     area_path |-> DGet(f, "System.AreaPath", JStr("")),
     iteration_path |-> DGet(f, "System.IterationPath", JStr("")),
     description |-> DGet(f, "System.Description", JNull),
     created_date |-> DGet(f, "System.CreatedDate", JStr("")),
     changed_date |-> DGet(f, "System.ChangedDate", JStr("")),
     tags |-> DGet(f, "System.Tags", JNull)]

\* models.WorkItem: the field annotations
WorkItemValid(r) ==
    /\ ValidInt(r.id)
    /\ ValidStr(r.title) /\ ValidStr(r.work_item_type) /\ ValidStr(r.state)
    /\ ValidOptStr(r.assigned_to)
    /\ ValidStr(r.area_path) /\ ValidStr(r.iteration_path)
    /\ ValidOptStr(r.description)
    /\ ValidStr(r.created_date) /\ ValidStr(r.changed_date)
    /\ ValidOptStr(r.tags)

TestCaseKwargs(raw, f) ==
    [id |-> raw["id"],
     title |-> DGet(f, "System.Title", JStr("")),
     work_item_type |-> DGet(f, "System.WorkItemType", JStr("")),
     state |-> DGet(f, "System.State", JStr("")),
     assigned_to |-> AssignedTo(f),
     area_path |-> DGet(f, "System.AreaPath", JStr("")),
     iteration_path |-> DGet(f, "System.IterationPath", JStr("")),
     description |-> DGet(f, "System.Description", JNull),
     created_date |-> DGet(f, "System.CreatedDate", JStr("")),
     changed_date |-> DGet(f, "System.ChangedDate", JStr("")),
     tags |-> DGet(f, "System.Tags", JNull),
     test_steps |-> DGet(f, "Microsoft.VSTS.TCM.Steps", JNull),
     priority |-> DGet(f, "Microsoft.VSTS.Common.Priority", JNull),
     automation_status |-> DGet(f, "Microsoft.VSTS.TCM.AutomationStatus", JNull)]

\* models.TestCase: WorkItem's annotations and the three test-case fields
TestCaseValid(r) ==
    /\ WorkItemValid(r)
    /\ ValidOptStr(r.test_steps)
    /\ ValidOptInt(r.priority)
    /\ ValidOptStr(r.automation_status)

\* A parser's outcome: the record, or the exception it raised (str(e)).
ParseOk(rec) == [ok |-> TRUE, err |-> <<>>, rec |-> rec]
ParseFail(err) == [ok |-> FALSE, err |-> err, rec |-> EmptyDict]

parse_work_item(raw) ==
    LET fv == FieldsOf(raw)
    IN  IF fv[1] # "dict" THEN ParseFail(<<"<TypeError: fields is not a dict>">>)
        ELSE IF "id" \notin DOMAIN raw THEN ParseFail(<<"'id'">>)
        ELSE LET r == WorkItemKwargs(raw, fv[2])
             IN  IF WorkItemValid(r) THEN ParseOk([r EXCEPT !.id = AsInt(@)])
                 ELSE ParseFail(<<"<validation error for WorkItem>">>)

parse_test_case(raw) ==
    LET fv == FieldsOf(raw)
    IN  IF fv[1] # "dict" THEN ParseFail(<<"<TypeError: fields is not a dict>">>)
        ELSE IF "id" \notin DOMAIN raw THEN ParseFail(<<"'id'">>)
        ELSE LET r == TestCaseKwargs(raw, fv[2])
             IN  IF TestCaseValid(r)
                 THEN ParseOk([r EXCEPT !.id = AsInt(@), !.priority = AsInt(@)])
                 ELSE ParseFail(<<"<validation error for TestCase>">>)

----------------------------------------------------------------------------
(* client.py: the query text.  A Python string that takes part in string  *)
(* formatting is a sequence of pieces; the quote character is a piece of   *)
(* its own.                                                                *)

Quote == "'"

SelectFrom ==
    "SELECT [System.Id], ... FROM workitems WHERE [System.TeamProject] = "
AndType == " AND [System.WorkItemType] = "
AndTitle == " AND [System.Title] CONTAINS "
AndState == " AND [System.State] = "
OrderBy == " ORDER BY [System.ChangedDate] DESC"

\* f"'{value}'": the value between two quote characters, as it is
Quoted(value) == <<Quote>> \o value \o <<Quote>>

\* get_work_items: lines 88-99
QueryAll(project, work_item_type) ==
    <<SelectFrom>> \o Quoted(project) \o <<AndType>> \o Quoted(work_item_type)
    \o <<OrderBy>>

\* search_work_items_by_title: lines 228-240
QueryTitle(project, work_item_type, search_term) ==
    <<SelectFrom>> \o Quoted(project) \o <<AndType>> \o Quoted(work_item_type)
    \o <<AndTitle>> \o Quoted(search_term) \o <<OrderBy>>

\* get_work_items_by_state: lines 350-362
QueryState(project, work_item_type, state) ==
    <<SelectFrom>> \o Quoted(project) \o <<AndType>> \o Quoted(work_item_type)
    \o <<AndState>> \o Quoted(state) \o <<OrderBy>>

(* The query language's reading of a query text: text outside quotes is    *)
(* syntax, text between quotes is one string literal, and a doubled quote  *)
(* inside a literal stands for a quote character.                          *)
Sym(t) == [k |-> "sym", v |-> <<t>>]
Lit(v) == [k |-> "lit", v |-> v]
OpenLit(v) == [k |-> "open", v |-> v]

RECURSIVE WiqlLex(_, _, _, _)
WiqlLex(q, i, inlit, buf) ==
    IF i > Len(q)
    THEN IF inlit THEN <<OpenLit(buf)>> ELSE <<>>
    ELSE IF ~inlit
    THEN IF q[i] = Quote
         THEN WiqlLex(q, i + 1, TRUE, <<>>)
         ELSE <<Sym(q[i])>> \o WiqlLex(q, i + 1, FALSE, <<>>)
    ELSE IF q[i] = Quote
    THEN IF i < Len(q) /\ q[i + 1] = Quote
         THEN WiqlLex(q, i + 2, TRUE, Append(buf, Quote))
         ELSE <<Lit(buf)>> \o WiqlLex(q, i + 1, FALSE, <<>>)
    ELSE WiqlLex(q, i + 1, TRUE, Append(buf, q[i]))

WiqlRead(q) == WiqlLex(q, 1, FALSE, <<>>)

----------------------------------------------------------------------------
(* The remote service, seen from the client *)

Types == {"User Story", "Test Case"}
States == {"New", "Active"}

Absent == [type |-> "", state |-> ""]
Items == [type : Types, state : States]

\* What the service may hold under an identifier when a handler is called.
StartItems == {Absent} \cup [type : Types, state : {"New"}]

\* What another party may turn a work item into: nothing, or another type.
Changed(item) ==
    IF item = Absent THEN {}
    ELSE {Absent} \cup {[item EXCEPT !.type = t] : t \in Types \ {item.type}}

\* The identifier the service gives a work item it creates.
NewId == 100 + MaxId + 1

\* How the service renders a work item: "full", without its identifier
\* ("noid"), or without its field dictionary ("nofields").
RawOf(id, item, shape) ==
    LET f == ("System.Title" :> JStr("Login flow"))
             @@ ("System.WorkItemType" :> JStr(item.type))
             @@ ("System.State" :> JStr(item.state))
             @@ ("Microsoft.VSTS.Common.Priority" :> JInt(2))
    IN  IF shape = "noid" THEN ("fields" :> JDict(f))
        ELSE IF shape = "nofields" THEN ("id" :> JInt(id))
        ELSE ("id" :> JInt(id)) @@ ("fields" :> JDict(f))

\* A patch document applied to an item: the last state operation decides.
RECURSIVE ApplyDoc(_, _, _)
ApplyDoc(item, doc, i) ==
    IF i > Len(doc) THEN item
    ELSE ApplyDoc(IF doc[i].path = <<"/fields/", "System.State">> /\ doc[i].value[1] = "str"
                  THEN [item EXCEPT !.state = doc[i].value[2]]
                  ELSE item,
                  doc, i + 1)

NoReq ==
    [kind |-> "", method |-> "", op |-> "", work_item_type |-> "", id |-> 0,
     ids |-> <<>>, query |-> <<>>, doc |-> <<>>, ctype |-> ""]

\* The service reads an identifier back from its decimal rendering.
IdOfStr(t) == CHOOSE n \in 0 .. NewId : PyStrInt(n) = t

\* Sequences of distinct identifiers, at most MaxId long
IdSeqs ==
    {q \in UNION {[1 .. n -> Ids] : n \in 0 .. MaxId} :
        \A i, j \in 1 .. Len(q) : i # j => q[i] # q[j]}

JsonBody == "<json>"
ErrorBody == "<error body>"
HtmlBody == "<html>"

\* Answers the service may give to any request: an error status (one
\* outside the retry list, one inside), or a success carrying a page that
\* is not JSON.
AnyAnswers ==
    {Resp(st, ErrorBody, FALSE, <<>>, <<>>) : st \in {401, 503}}
    \cup {Resp(200, HtmlBody, FALSE, <<>>, <<>>)}

NotFound == Resp(404, ErrorBody, FALSE, <<>>, <<>>)

\* The answers to request r, each with the remote item after it.
Answers(r) ==
    {[resp |-> a, remote |-> remote] : a \in AnyAnswers}
    \cup
    IF r.kind = "wiql"
    THEN {[resp |-> Resp(200, JsonBody, TRUE, q, <<>>), remote |-> remote] : q \in IdSeqs}
         \cup {[resp |-> NotFound, remote |-> remote]}
    ELSE IF r.kind = "batch"
    THEN {[resp |-> Resp(200, JsonBody, TRUE, <<>>,
                         [i \in 1 .. Len(r.ids) |->
                            RawOf(IdOfStr(r.ids[i]), [type |-> r.work_item_type, state |-> "Active"],
                                  IF i = bad THEN "noid" ELSE "full")]),
           remote |-> remote] : bad \in 0 .. Len(r.ids)}
         \cup {[resp |-> NotFound, remote |-> remote]}
    ELSE IF r.kind = "item"
    THEN IF remote = Absent
         THEN {[resp |-> NotFound, remote |-> remote]}
         ELSE {[resp |-> Resp(200, JsonBody, TRUE, <<>>, <<RawOf(r.id, remote, sh)>>),
                remote |-> remote] : sh \in {"full", "noid", "nofields"}}
    ELSE IF r.kind = "patch"
    THEN IF remote = Absent
         THEN {[resp |-> NotFound, remote |-> remote]}
         ELSE {[resp |-> Resp(200, JsonBody, TRUE, <<>>,
                              <<RawOf(r.id, ApplyDoc(remote, r.doc, 1), sh)>>),
                remote |-> ApplyDoc(remote, r.doc, 1)] : sh \in {"full", "noid"}}
    ELSE {[resp |-> Resp(200, JsonBody, TRUE, <<>>,
                         <<RawOf(NewId, ApplyDoc([type |-> r.work_item_type, state |-> "New"],
                                                 r.doc, 1), sh)>>),
           remote |-> remote] : sh \in {"full", "noid"}}
         \cup {[resp |-> NotFound, remote |-> remote]}

\* What can happen to one attempt of request r.
Events(r) ==
    {[fault |-> f, resp |-> NoResp, remote |-> remote] : f \in NetFaults}
    \cup {[fault |-> "none", resp |-> a.resp, remote |-> a.remote] : a \in Answers(r)}

----------------------------------------------------------------------------
(* client.py: the six operations.  Each is cut at its HTTP requests: the   *)
(* operator named after the operation builds its first request, the        *)
(* ...Resume operators run from a request's outcome s (SessionSend) to the *)
(* next request (more) or to what the operation returns or raises (out).   *)

JsonType == "application/json"
PatchType == "application/json-patch+json"

\* Mutant: the session's headers are changed in place.
PatchHeaders_Shared(headers) ==
    [request |-> [headers EXCEPT !.ContentType = PatchType],
     session |-> [headers EXCEPT !.ContentType = PatchType]]

\* headers = self.session.headers.copy()
\* headers["Content-Type"] = "application/json-patch+json":
\* the headers of the one request, and the session's headers after it.
PatchHeaders(headers) ==
    [request |-> [headers EXCEPT !.ContentType = PatchType],
     session |-> headers]

\* The client's session after an operation has built request r.
SessionAfter(r) ==
    IF r.kind \in {"patch", "create"}
    THEN [session EXCEPT !.headers = PatchHeaders(session.headers).session]
    ELSE session

More(r) == [more |-> TRUE, req |-> r, out |-> Pending]
Done(out) == [more |-> FALSE, req |-> NoReq, out |-> out]

WiqlRequest(op, work_item_type, query) ==
    [kind |-> "wiql", method |-> "POST", op |-> op, work_item_type |-> work_item_type,
     id |-> 0, ids |-> <<>>, query |-> query, doc |-> <<>>,
     ctype |-> session.headers.ContentType]

get_work_items(work_item_type, top) ==
    WiqlRequest("get_work_items", work_item_type,
                QueryAll(session.project, <<work_item_type>>))

search_work_items_by_title(search_term, work_item_type, top) ==
    WiqlRequest("search_work_items_by_title", work_item_type,
                QueryTitle(session.project, <<work_item_type>>, search_term))

get_work_items_by_state(state, work_item_type, top) ==
    WiqlRequest("get_work_items_by_state", work_item_type,
                QueryState(session.project, <<work_item_type>>, state))

\* Mutant: the identifiers are not truncated.
LimitIds_All(work_item_ids, top) == work_item_ids

\* work_item_ids[:top]
LimitIds(work_item_ids, top) == PySlice(work_item_ids, top)

\* ",".join(map(str, work_item_ids)): the decimal renderings, in order
IdsParam(work_item_ids) ==
    [i \in 1 .. Len(work_item_ids) |-> PyStrInt(work_item_ids[i])]

\* Mutant: the empty result is not returned early.
NoIds_Never(work_item_ids) == FALSE

\* if not work_item_ids
NoIds(work_item_ids) == Len(work_item_ids) = 0

\* From the query request's outcome to the batch request or the result
\* (the same lines in the three query operations).
QueryResume(r, top, s) ==
    IF s.act = "raise" THEN Done(Raised(r.op, s.exc))
    ELSE IF RaisesForStatus(s.resp) THEN Done(Raised(r.op, HTTPErrorOf(s.resp)))
    ELSE IF ~s.resp.valid THEN Done(Raised(r.op, JSONErrorOf(s.resp)))
    ELSE IF NoIds(s.resp.ids) THEN Done(Returned(<<>>))
    ELSE More([kind |-> "batch", method |-> "GET", op |-> r.op,
               work_item_type |-> r.work_item_type, id |-> 0,
               ids |-> IdsParam(LimitIds(s.resp.ids, top)), query |-> <<>>,
               doc |-> <<>>, ctype |-> session.headers.ContentType])

\* From the batch request's outcome to the result.
DetailsResume(r, s) ==
    IF s.act = "raise" THEN Done(Raised(r.op, s.exc))
    ELSE IF RaisesForStatus(s.resp) THEN Done(Raised(r.op, HTTPErrorOf(s.resp)))
    ELSE IF ~s.resp.valid THEN Done(Raised(r.op, JSONErrorOf(s.resp)))
    ELSE Done(Returned(s.resp.value))

get_work_item_by_id(work_item_id) ==
    [kind |-> "item", method |-> "GET", op |-> "get_work_item_by_id",
     work_item_type |-> "", id |-> work_item_id, ids |-> <<>>, query |-> <<>>,
     doc |-> <<>>, ctype |-> session.headers.ContentType]

\* get_work_item_by_id's except chain: as the others, but an HTTPError
\* for a 404 returns None.
RaisedById(e) ==
    IF /\ Bases(e.cls) \cap {"SSLError", "ProxyError", "ConnectionError", "Timeout"} = {}
       /\ "HTTPError" \in Bases(e.cls)
       /\ e.resp.status = 404
    THEN ReturnedNone
    ELSE Raised("get_work_item_by_id", e)

\* if response.status_code == 404: return None
ByIdNotFound(resp) == resp.status = 404

\* Mutant: a 404 is treated as any other error status.
ByIdResume_Raises404(r, s) ==
    IF s.act = "raise" THEN Done(Raised(r.op, s.exc))
    ELSE IF RaisesForStatus(s.resp) THEN Done(Raised(r.op, HTTPErrorOf(s.resp)))
    ELSE IF ~s.resp.valid THEN Done(Raised(r.op, JSONErrorOf(s.resp)))
    ELSE Done(Returned(s.resp.value))

ByIdResume(r, s) ==
    IF s.act = "raise" THEN Done(RaisedById(s.exc))
    ELSE IF ByIdNotFound(s.resp) THEN Done(ReturnedNone)
    ELSE IF RaisesForStatus(s.resp) THEN Done(RaisedById(HTTPErrorOf(s.resp)))
    ELSE IF ~s.resp.valid THEN Done(RaisedById(JSONErrorOf(s.resp)))
    ELSE Done(Returned(s.resp.value))

PatchOp(op, field_path, value) ==
    [op |-> op, path |-> <<"/fields/", field_path>>, value |-> value]

\* Mutant: the operations are "add" operations.
UpdateDoc_Add(updates) ==
    [i \in 1 .. Len(updates) |-> PatchOp("add", updates[i][1], updates[i][2])]

\* One "replace" per entry of updates, in its order.
UpdateDoc(updates) ==
    [i \in 1 .. Len(updates) |-> PatchOp("replace", updates[i][1], updates[i][2])]

update_work_item(work_item_id, updates) ==
    [kind |-> "patch", method |-> "PATCH", op |-> "update_work_item",
     work_item_type |-> "", id |-> work_item_id, ids |-> <<>>, query |-> <<>>,
     doc |-> UpdateDoc(updates),
     ctype |-> PatchHeaders(session.headers).request.ContentType]

\* raise Exception(f"Work item {work_item_id} not found"), inside the try
UpdateNotFound(work_item_id, resp) ==
    Exc("Exception", <<"Work item ", PyStrInt(work_item_id), " not found">>, resp,
        "http-status")

\* Mutant: a 404 is left to raise_for_status.
UpdateResume_No404Check(r, s) ==
    IF s.act = "raise" THEN Done(Raised(r.op, s.exc))
    ELSE IF RaisesForStatus(s.resp) THEN Done(Raised(r.op, HTTPErrorOf(s.resp)))
    ELSE IF ~s.resp.valid THEN Done(Raised(r.op, JSONErrorOf(s.resp)))
    ELSE Done(Returned(s.resp.value))

UpdateResume(r, s) ==
    IF s.act = "raise" THEN Done(Raised(r.op, s.exc))
    ELSE IF s.resp.status = 404 THEN Done(Raised(r.op, UpdateNotFound(r.id, s.resp)))
    ELSE IF RaisesForStatus(s.resp) THEN Done(Raised(r.op, HTTPErrorOf(s.resp)))
    ELSE IF ~s.resp.valid THEN Done(Raised(r.op, JSONErrorOf(s.resp)))
    ELSE Done(Returned(s.resp.value))

\* Mutant: an entry whose value is None gives an operation too.
NonNoneOps_All(fields, i) ==
    [k \in 1 .. Len(fields) - i + 1 |->
        PatchOp("add", fields[k + i - 1][1], fields[k + i - 1][2])]

RECURSIVE NonNoneOps(_, _)
NonNoneOps(fields, i) ==
    IF i > Len(fields) THEN <<>>
    ELSE (IF IsNone(fields[i][2]) THEN <<>>
          ELSE <<PatchOp("add", fields[i][1], fields[i][2])>>)
         \o NonNoneOps(fields, i + 1)

\* title, type, then one "add" per entry of fields whose value is not None
CreateDoc(work_item_type, title, fields) ==
    <<PatchOp("add", "System.Title", title),
      PatchOp("add", "System.WorkItemType", JStr(work_item_type))>>
    \o NonNoneOps(fields, 1)

create_work_item(work_item_type, title, fields) ==
    [kind |-> "create", method |-> "POST", op |-> "create_work_item",
     work_item_type |-> work_item_type, id |-> 0, ids |-> <<>>, query |-> <<>>,
     doc |-> CreateDoc(work_item_type, title, fields),
     ctype |-> PatchHeaders(session.headers).request.ContentType]

CreateResume(r, s) ==
    IF s.act = "raise" THEN Done(Raised(r.op, s.exc))
    ELSE IF RaisesForStatus(s.resp) THEN Done(Raised(r.op, HTTPErrorOf(s.resp)))
    ELSE IF ~s.resp.valid THEN Done(Raised(r.op, JSONErrorOf(s.resp)))
    ELSE Done(Returned(s.resp.value))

\* The operation that sent r, resumed at r's outcome.
ClientResume(r, top, s) ==
    IF r.kind = "wiql" THEN QueryResume(r, top, s)
    ELSE IF r.kind = "batch" THEN DetailsResume(r, s)
    ELSE IF r.kind = "item" THEN ByIdResume(r, s)
    ELSE IF r.kind = "patch" THEN UpdateResume(r, s)
    ELSE CreateResume(r, s)

----------------------------------------------------------------------------
(* user_story_tools.py and test_case_tools.py: the twelve handlers *)

StoryTools ==
    {"get_user_stories", "get_story_details", "search_stories_by_title",
     "get_stories_by_state", "update_story", "create_user_story"}
CaseTools ==
    {"get_test_cases", "get_test_case_details", "search_test_cases_by_title",
     "get_test_cases_by_state", "update_test_case", "create_test_case"}
Tools == StoryTools \cup CaseTools

ListTools == {"get_user_stories", "get_test_cases"}
DetailTools == {"get_story_details", "get_test_case_details"}
SearchTools == {"search_stories_by_title", "search_test_cases_by_title"}
StateTools == {"get_stories_by_state", "get_test_cases_by_state"}
UpdateTools == {"update_story", "update_test_case"}
CreateTools == {"create_user_story", "create_test_case"}

\* The work_item_type a handler passes and expects.
ToolType(tool) == IF tool \in StoryTools THEN "User Story" ELSE "Test Case"

\* The parser a handler uses.
Parse(tool, raw) ==
    IF tool \in StoryTools THEN parse_work_item(raw) ELSE parse_test_case(raw)

\* str(v) of a value inside an f-string
PyStr(v) ==
    IF v[1] = "str" THEN v[2]
    ELSE IF v[1] = "int" THEN PyStrInt(v[2])
    ELSE IF v[1] = "null" THEN "None"
    ELSE "<dict>"

\* What the dispatcher gets back.  head: the pieces of the text before the
\* rendered records; items: the records rendered after it.  perr counts,
\* for the properties only, the exceptions the parser raised in the call.
NoRet == [done |-> FALSE, raised |-> FALSE, head |-> <<>>, items |-> <<>>, perr |-> 0]

Text(head, items, perr) ==
    [done |-> TRUE, raised |-> FALSE, head |-> head, items |-> items, perr |-> perr]

\* The words a handler's except clause puts before str(e).
ErrorPrefix(tool, id) ==
    IF tool = "get_user_stories" THEN <<"Error retrieving user stories: ">>
    ELSE IF tool = "get_story_details" THEN <<"Error retrieving story details: ">>
    ELSE IF tool = "search_stories_by_title" THEN <<"Error searching stories: ">>
    ELSE IF tool = "get_stories_by_state" THEN <<"Error retrieving stories by state: ">>
    ELSE IF tool = "update_story" THEN <<"Error updating user story ", PyStrInt(id), ": ">>
    ELSE IF tool = "create_user_story" THEN <<"Error creating user story: ">>
    ELSE IF tool = "get_test_cases" THEN <<"Error retrieving test cases: ">>
    ELSE IF tool = "get_test_case_details" THEN <<"Error retrieving test case details: ">>
    ELSE IF tool = "search_test_cases_by_title" THEN <<"Error searching test cases: ">>
    ELSE IF tool = "get_test_cases_by_state" THEN <<"Error retrieving test cases by state: ">>
    ELSE IF tool = "update_test_case" THEN <<"Error updating test case ", PyStrInt(id), ": ">>
    ELSE <<"Error creating test case: ">>

\* Mutant: the except clause lets the exception through.
ErrorText_Reraise(f, msg, perr) ==
    [done |-> TRUE, raised |-> TRUE, head |-> msg, items |-> <<>>, perr |-> perr]

\* except Exception as e: return f"Error ...: {str(e)}"
ErrorText(f, msg, perr) == Text(ErrorPrefix(f.tool, f.id) \o msg, <<>>, perr)

\* Mutant: only the upper bound is applied.
ClampLimit_NoFloor(limit, hi) == Min(limit, hi)

\* limit = min(max(1, limit), hi)
ClampLimit(limit, hi) == Min(Max(1, limit), hi)

ListMax == 200
SearchMax == 100

\* Mutant: the first record that does not parse ends the loop.
RECURSIVE ParseBatch_Aborts(_, _, _)
ParseBatch_Aborts(tool, work_items_data, i) ==
    IF i > Len(work_items_data) THEN <<>>
    ELSE LET pr == Parse(tool, work_items_data[i])
         IN  IF pr.ok
             THEN <<pr.rec>> \o ParseBatch_Aborts(tool, work_items_data, i + 1)
             ELSE <<>>

\* The inner try of the list, search and filter handlers: the records that
\* parse, in order; a record that does not parse is skipped.
RECURSIVE ParseBatch(_, _, _)
ParseBatch(tool, work_items_data, i) ==
    IF i > Len(work_items_data) THEN <<>>
    ELSE LET pr == Parse(tool, work_items_data[i])
         IN  (IF pr.ok THEN <<pr.rec>> ELSE <<>>)
             \o ParseBatch(tool, work_items_data, i + 1)

ParseErrors(tool, work_items_data) ==
    Cardinality({i \in 1 .. Len(work_items_data) : ~Parse(tool, work_items_data[i]).ok})

\* The success text of a list, search or filter handler.
BatchHead(f, n) ==
    IF f.tool = "get_user_stories"
    THEN <<"Retrieved ", PyStrInt(n), " user stories:\n">>
    ELSE IF f.tool = "get_test_cases"
    THEN <<"Retrieved ", PyStrInt(n), " test cases:\n">>
    ELSE IF f.tool = "search_stories_by_title"
    THEN <<"Found ", PyStrInt(n), " stories matching '">> \o f.term \o <<"':\n">>
    ELSE IF f.tool = "search_test_cases_by_title"
    THEN <<"Found ", PyStrInt(n), " test cases matching '">> \o f.term \o <<"':\n">>
    ELSE IF f.tool = "get_stories_by_state"
    THEN <<"Found ", PyStrInt(n), " stories in state '">> \o f.term \o <<"':\n">>
    ELSE <<"Found ", PyStrInt(n), " test cases in state '">> \o f.term \o <<"':\n">>

\* The handler's outer try from the client's result on (list, search, filter).
BatchResume(f, out) ==
    IF out.raised THEN ErrorText(f, out.msg, 0)
    ELSE LET work_items == ParseBatch(f.tool, out.recs, 1)
         IN  Text(BatchHead(f, Len(work_items)), work_items,
                  ParseErrors(f.tool, out.recs))

\* existing_item.get("fields", {}).get("System.WorkItemType", "")
WorkItemTypeOf(raw) == DGet(FieldsOf(raw)[2], "System.WorkItemType", JStr(""))

\* The handler's "not found" texts.
NotFoundText(f) ==
    IF f.tool = "get_story_details"
    THEN Text(<<"Work item with ID ", PyStrInt(f.id), " not found">>, <<>>, 0)
    ELSE IF f.tool = "update_story"
    THEN Text(<<"User story with ID ", PyStrInt(f.id), " not found">>, <<>>, 0)
    ELSE Text(<<"Test case with ID ", PyStrInt(f.id), " not found">>, <<>>, 0)

WrongTypeText(f, work_item_type) ==
    IF f.tool \in StoryTools
    THEN Text(<<"Work item ", PyStrInt(f.id), " is not a user story (it's a ",
                PyStr(work_item_type), ")">>, <<>>, 0)
    ELSE Text(<<"Work item ", PyStrInt(f.id), " is not a test case (it's a ",
                PyStr(work_item_type), ")">>, <<>>, 0)

\* Which handlers compare the fetched type with their own: both updates,
\* and get_test_case_details (get_story_details does not).
ChecksType(tool) == tool \in UpdateTools \cup {"get_test_case_details"}

\* Mutant: the type check is left out.
TypeMismatch_Never(tool, work_item_type) == FALSE

\* work_item_type != "User Story" / != "Test Case"
TypeMismatch(tool, work_item_type) == work_item_type # JStr(ToolType(tool))

\* Parse one record and render it under head, or the except clause.
ParseOne(f, raw, head) ==
    LET pr == Parse(f.tool, raw)
    IN  IF pr.ok THEN Text(head, <<pr.rec>>, 0) ELSE ErrorText(f, pr.err, 1)

\* get_story_details / get_test_case_details from the client's result on.
DetailResume(f, out) ==
    IF out.raised THEN ErrorText(f, out.msg, 0)
    ELSE IF out.none THEN NotFoundText(f)
    ELSE IF ChecksType(f.tool) /\ FieldsOf(out.recs[1])[1] # "dict"
    THEN ErrorText(f, <<"<AttributeError>">>, 0)
    ELSE IF ChecksType(f.tool) /\ TypeMismatch(f.tool, WorkItemTypeOf(out.recs[1]))
    THEN WrongTypeText(f, WorkItemTypeOf(out.recs[1]))
    ELSE ParseOne(f, out.recs[1],
                  IF f.tool = "get_story_details" THEN <<"Story Details:\n">>
                  ELSE <<"Test Case Details:\n">>)

\* field_mapping of the update handlers: parameter, external field name.
StoryUpdateMapping ==
    << <<"title", "System.Title">>, <<"state", "System.State">>,
       <<"assigned_to", "System.AssignedTo">>, <<"description", "System.Description">>,
       <<"priority", "Microsoft.VSTS.Common.Priority">>,
       <<"story_points", "Microsoft.VSTS.Scheduling.StoryPoints">>,
       <<"tags", "System.Tags">>, <<"area_path", "System.AreaPath">>,
       <<"iteration_path", "System.IterationPath">> >>

CaseUpdateMapping ==
    << <<"title", "System.Title">>, <<"state", "System.State">>,
       <<"assigned_to", "System.AssignedTo">>, <<"description", "System.Description">>,
       <<"test_steps", "Microsoft.VSTS.TCM.Steps">>,
       <<"priority", "Microsoft.VSTS.Common.Priority">>,
       <<"automation_status", "Microsoft.VSTS.TCM.AutomationStatus">>,
       <<"tags", "System.Tags">>, <<"area_path", "System.AreaPath">>,
       <<"iteration_path", "System.IterationPath">> >>

\* The create handlers' "if x is not None: fields[...] = x" lines, in order.
StoryCreateMapping ==
    << <<"description", "System.Description">>,
       <<"priority", "Microsoft.VSTS.Common.Priority">>,
       <<"story_points", "Microsoft.VSTS.Scheduling.StoryPoints">>,
       <<"assigned_to", "System.AssignedTo">>, <<"area_path", "System.AreaPath">>,
       <<"iteration_path", "System.IterationPath">>, <<"tags", "System.Tags">> >>

CaseCreateMapping ==
    << <<"description", "System.Description">>,
       <<"test_steps", "Microsoft.VSTS.TCM.Steps">>,
       <<"priority", "Microsoft.VSTS.Common.Priority">>,
       <<"assigned_to", "System.AssignedTo">>, <<"area_path", "System.AreaPath">>,
       <<"iteration_path", "System.IterationPath">>,
       <<"automation_status", "Microsoft.VSTS.TCM.AutomationStatus">>,
       <<"tags", "System.Tags">> >>

Mapping(tool) ==
    IF tool = "update_story" THEN StoryUpdateMapping
    ELSE IF tool = "update_test_case" THEN CaseUpdateMapping
    ELSE IF tool = "create_user_story" THEN StoryCreateMapping
    ELSE IF tool = "create_test_case" THEN CaseCreateMapping
    ELSE <<>>

\* if value is not None: d[field_name] = value, over the mapping in order
RECURSIVE CollectNonNone(_, _, _, _)
CollectNonNone(mapping, args, i, d) ==
    IF i > Len(mapping) THEN d
    ELSE CollectNonNone(mapping, args, i + 1,
                        IF IsNone(args[mapping[i][1]]) THEN d
                        ELSE DictSet(d, mapping[i][2], args[mapping[i][1]]))

\* updates of update_story / update_test_case
Updates(tool, args) == CollectNonNone(Mapping(tool), args, 1, <<>>)

\* The state a create handler sets.
DefaultState(tool) == IF tool = "create_user_story" THEN "New" ELSE "Design"

\* Mutant: the default state is not set.
CreateFields_NoState(tool, args) == CollectNonNone(Mapping(tool), args, 1, <<>>)

\* fields of create_user_story / create_test_case: the caller's values,
\* then fields["System.State"] = the default
CreateFields(tool, args) ==
    DictSet(CollectNonNone(Mapping(tool), args, 1, <<>>),
            "System.State", JStr(DefaultState(tool)))

NoFieldsText ==
    Text(<<"No fields provided for update. Please specify at least one field to update.">>,
         <<>>, 0)

\* For the properties only: how a request of a client operation ended (the
\* fault of its last attempt, or the response's status and content).
NoAns == [fault |-> "", status |-> 0, text |-> "", valid |-> FALSE, ids |-> <<>>]

Ans(ev) ==
    [fault |-> ev.fault, status |-> ev.resp.status, text |-> ev.resp.text,
     valid |-> ev.resp.valid, ids |-> ev.resp.ids]

\* One invocation of a client operation: its arguments, and its outcome
\* (out) once it has ended.  q is how its query request ended and last how
\* its last request ended.
NoCall ==
    [op |-> "", work_item_type |-> "", top |-> 0, id |-> 0, term |-> <<>>,
     title |-> JNull, fields |-> <<>>, out |-> Pending, q |-> NoAns, last |-> NoAns]

Call(op, work_item_type, top, id, term, title, fields) ==
    [op |-> op, work_item_type |-> work_item_type, top |-> top, id |-> id,
     term |-> term, title |-> title, fields |-> fields, out |-> Pending,
     q |-> NoAns, last |-> NoAns]

\* What a handler does next: another client operation, or its return.
Invokes(call, r) == [more |-> TRUE, call |-> call, req |-> r, text |-> NoRet]
Returns(text) == [more |-> FALSE, call |-> NoCall, req |-> NoReq, text |-> text]

\* Mutant: the check for no fields comes before the checks of the record.
UpdateChecked_NoFieldsFirst(f, out) ==
    IF out.raised THEN Returns(ErrorText(f, out.msg, 0))
    ELSE IF Len(Updates(f.tool, f.args)) = 0 THEN Returns(NoFieldsText)
    ELSE IF out.none THEN Returns(NotFoundText(f))
    ELSE IF FieldsOf(out.recs[1])[1] # "dict"
    THEN Returns(ErrorText(f, <<"<AttributeError>">>, 0))
    ELSE IF TypeMismatch(f.tool, WorkItemTypeOf(out.recs[1]))
    THEN Returns(WrongTypeText(f, WorkItemTypeOf(out.recs[1])))
    ELSE Invokes(Call("update_work_item", "", 0, f.id, <<>>, JNull,
                      Updates(f.tool, f.args)),
                 update_work_item(f.id, Updates(f.tool, f.args)))

\* update_story / update_test_case after get_work_item_by_id.
UpdateChecked(f, out) ==
    IF out.raised THEN Returns(ErrorText(f, out.msg, 0))
    ELSE IF out.none THEN Returns(NotFoundText(f))
    ELSE IF FieldsOf(out.recs[1])[1] # "dict"
    THEN Returns(ErrorText(f, <<"<AttributeError>">>, 0))
    ELSE IF TypeMismatch(f.tool, WorkItemTypeOf(out.recs[1]))
    THEN Returns(WrongTypeText(f, WorkItemTypeOf(out.recs[1])))
    ELSE IF Len(Updates(f.tool, f.args)) = 0 THEN Returns(NoFieldsText)
    ELSE Invokes(Call("update_work_item", "", 0, f.id, <<>>, JNull,
                      Updates(f.tool, f.args)),
                 update_work_item(f.id, Updates(f.tool, f.args)))

\* update_story / update_test_case after update_work_item.
UpdateDone(f, out) ==
    IF out.raised THEN ErrorText(f, out.msg, 0)
    ELSE ParseOne(f, out.recs[1],
                  IF f.tool = "update_story"
                  THEN <<"Successfully updated user story ", PyStrInt(f.id), ":\n">>
                  ELSE <<"Successfully updated test case ", PyStrInt(f.id), ":\n">>)

\* create_user_story / create_test_case after create_work_item.
CreateDone(f, out) ==
    IF out.raised THEN ErrorText(f, out.msg, 0)
    ELSE LET pr == Parse(f.tool, out.recs[1])
         IN  IF ~pr.ok THEN ErrorText(f, pr.err, 1)
             ELSE Text(IF f.tool = "create_user_story"
                       THEN <<"Successfully created user story ", PyStr(pr.rec.id), ":\n">>
                       ELSE <<"Successfully created test case ", PyStr(pr.rec.id), ":\n">>,
                       <<pr.rec>>, 0)

\* Mutant: a create handler calls create_work_item once more when it raised.
HandlerResume_RetriesCreate(f, op, out) ==
    IF f.tool \in ListTools \cup SearchTools \cup StateTools
    THEN Returns(BatchResume(f, out))
    ELSE IF f.tool \in DetailTools THEN Returns(DetailResume(f, out))
    ELSE IF f.tool \in UpdateTools
    THEN IF op = "get_work_item_by_id" THEN UpdateChecked(f, out)
         ELSE Returns(UpdateDone(f, out))
    ELSE IF out.raised /\ Len(calls) < 2
    THEN Invokes(Call("create_work_item", ToolType(f.tool), 0, 0, <<>>, f.title,
                      CreateFields(f.tool, f.args)),
                 create_work_item(ToolType(f.tool), f.title, CreateFields(f.tool, f.args)))
    ELSE Returns(CreateDone(f, out))

\* The running handler, resumed at the result of client operation op.
HandlerResume(f, op, out) ==
    IF f.tool \in ListTools \cup SearchTools \cup StateTools
    THEN Returns(BatchResume(f, out))
    ELSE IF f.tool \in DetailTools THEN Returns(DetailResume(f, out))
    ELSE IF f.tool \in UpdateTools
    THEN IF op = "get_work_item_by_id" THEN UpdateChecked(f, out)
         ELSE Returns(UpdateDone(f, out))
    ELSE Returns(CreateDone(f, out))

----------------------------------------------------------------------------
(* The arguments the dispatcher may call the handlers with *)

Limits == {-3, 0, 2, 101, 9999}

\* search terms and state values; the second holds the quote character
Terms ==
    {<<"Active">>, <<"x", Quote, " OR [System.State] <> ", Quote, "x">>}

Titles == {JStr("Checkout")}

\* One value per optional parameter; description is empty and story_points
\* is zero: values that are not None and are false in a condition.
Sample(param) ==
    IF param = "title" THEN JStr("Renamed")
    ELSE IF param = "state" THEN JStr("Active")
    ELSE IF param = "assigned_to" THEN JStr("alice@x.com")
    ELSE IF param = "description" THEN JStr("")
    ELSE IF param = "priority" THEN JInt(2)
    ELSE IF param = "story_points" THEN JInt(0)
    ELSE IF param = "tags" THEN JStr("a;b")
    ELSE IF param = "area_path" THEN JStr("Area")
    ELSE IF param = "iteration_path" THEN JStr("Sprint 1")
    ELSE IF param = "test_steps" THEN JStr("<steps/>")
    ELSE JStr("Planned")

Params(tool) == {Mapping(tool)[i][1] : i \in 1 .. Len(Mapping(tool))}

\* The optional arguments of a call: at most MaxArgs of them are not None.
ArgChoices(tool) ==
    {[p \in Params(tool) |-> IF p \in given THEN Sample(p) ELSE JNull] :
        given \in {g \in SUBSET Params(tool) : Cardinality(g) <= MaxArgs}}

NoFrame ==
    [tool |-> "", limit |-> 0, term |-> <<>>, id |-> 0, title |-> JNull,
     args |-> EmptyDict]

Frame(tool, limit, term, id, title, args) ==
    [tool |-> tool, limit |-> limit, term |-> term, id |-> id, title |-> title,
     args |-> args]

----------------------------------------------------------------------------
(* config.py and AzureDevOpsClient.__init__ / _configure_ssl.  An       *)
(* environment variable that is unset and one that is set to the empty     *)
(* string are both "": the code tests them for truth only.                 *)

\* A certificate bundle that exists, and a path nothing exists at.
CaBundle == "/etc/ssl/ca.pem"
MissingBundle == "/nowhere/ca.pem"

DefaultEnv ==
    [AZURE_DEVOPS_PAT |-> "tok",
     AZURE_DEVOPS_DISABLE_SSL_VERIFY |-> "",
     SSL_CERT_FILE |-> "",
     REQUESTS_CA_BUNDLE |-> "",
     CURL_CA_BUNDLE |-> "",
     exists |-> {CaBundle},
     certifi |-> TRUE]

\* The environments the process may be started in.  certifi: the certifi
\* package can be imported.
Envs ==
    [AZURE_DEVOPS_PAT : {"", "tok"},
     AZURE_DEVOPS_DISABLE_SSL_VERIFY : {"", "true", "TRUE", "1"},
     SSL_CERT_FILE : {"", CaBundle, MissingBundle},
     REQUESTS_CA_BUNDLE : {"", CaBundle, MissingBundle},
     CURL_CA_BUNDLE : {"", CaBundle, MissingBundle},
     exists : {{CaBundle}},
     certifi : BOOLEAN]

\* str.lower() on the values the flag takes
Lower(s) == IF s = "TRUE" THEN "true" ELSE s

NotImported ==
    [state |-> "none", error |-> "", AZURE_DEVOPS_ORG |-> "",
     AZURE_DEVOPS_PAT |-> "", DISABLE_SSL_VERIFY |-> FALSE]

\* Importing config.py in environment e: its names, or the ValueError of
\* its check of AZURE_DEVOPS_PAT.
LoadConfig(e) ==
    IF e.AZURE_DEVOPS_PAT = ""
    THEN [NotImported EXCEPT !.state = "error",
              !.error = "AZURE_DEVOPS_PAT environment variable is required"]
    ELSE [state |-> "imported", error |-> "", AZURE_DEVOPS_ORG |-> "executeauto",
          AZURE_DEVOPS_PAT |-> e.AZURE_DEVOPS_PAT,
          DISABLE_SSL_VERIFY |-> (Lower(e.AZURE_DEVOPS_DISABLE_SSL_VERIFY) = "true")]

\* os.getenv("SSL_CERT_FILE") or os.getenv("REQUESTS_CA_BUNDLE")
\*     or os.getenv("CURL_CA_BUNDLE")
CertFile(e) ==
    IF e.SSL_CERT_FILE # "" THEN e.SSL_CERT_FILE
    ELSE IF e.REQUESTS_CA_BUNDLE # "" THEN e.REQUESTS_CA_BUNDLE
    ELSE e.CURL_CA_BUNDLE

\* session.verify as a string: "False", a bundle's path, "certifi" for
\* certifi.where(), "True" for the value requests.Session() starts with.
VerifyOff == "False"
VerifyCertifi == "certifi"
VerifyDefault == "True"

\* Mutant: a bundle that exists is used before the flag is looked at.
configure_ssl_BundleFirst(e, cfg) ==
    IF CertFile(e) # "" /\ CertFile(e) \in e.exists THEN CertFile(e)
    ELSE IF cfg.DISABLE_SSL_VERIFY THEN VerifyOff
    ELSE IF e.certifi THEN VerifyCertifi
    ELSE VerifyDefault

\* AzureDevOpsClient._configure_ssl: session.verify after it
configure_ssl(e, cfg) ==
    IF cfg.DISABLE_SSL_VERIFY THEN VerifyOff
    ELSE IF CertFile(e) # "" /\ CertFile(e) \in e.exists THEN CertFile(e)
    ELSE IF e.certifi THEN VerifyCertifi
    ELSE VerifyDefault

\* The client before its construction.
NoClient ==
    [organization |-> "", project |-> <<>>, base_url |-> <<>>,
     headers |-> [Authorization |-> <<>>, ContentType |-> "", UserAgent |-> ""],
     verify |-> "", timeout |-> 0]

\* AzureDevOpsClient.__init__(organization, project, pat) in environment e
\* with config.py imported as cfg.
NewClient(e, cfg, organization, project, pat) ==
    [organization |-> organization,
     project |-> project,
     base_url |-> <<"https://dev.azure.com/", organization>>,
     headers |-> [Authorization |-> <<"Basic ", "b64(", ":", pat, ")">>,
                  ContentType |-> JsonType,
                  UserAgent |-> "Azure-DevOps-MCP-Server/1.0"],
     verify |-> configure_ssl(e, cfg),
     timeout |-> REQUEST_TIMEOUT]

----------------------------------------------------------------------------
(* The state machine *)

\* main(): the client built from config.py's names
NewSession ==
    NewClient(DefaultEnv, LoadConfig(DefaultEnv), LoadConfig(DefaultEnv).AZURE_DEVOPS_ORG,
              AZURE_DEVOPS_PROJECT, LoadConfig(DefaultEnv).AZURE_DEVOPS_PAT)

\* A direct call of a parser or of create_work_item: none yet.
NoUnit == [op |-> "", arg |-> <<>>, out |-> <<>>]

Init ==
    /\ remote = Absent
    /\ session = NewSession
    /\ pc = "idle"
    /\ cur = NoFrame
    /\ req = NoReq
    /\ attempt = 0
    /\ reqlog = <<>>
    /\ calls = <<>>
    /\ ret = NoRet
    /\ env = DefaultEnv
    /\ config = LoadConfig(DefaultEnv)
    /\ unit = NoUnit

\* A handler is called: it runs to its first request.  rem is what the
\* remote service holds under the call's identifier at that moment.
Start(f, rem, call, r) ==
    /\ pc = "idle"
    /\ pc' = "http"
    /\ cur' = f
    /\ remote' = rem
    /\ req' = r
    /\ attempt' = 0
    /\ reqlog' = <<r>>
    /\ calls' = <<call>>
    /\ ret' = NoRet
    /\ session' = SessionAfter(r)
    /\ UNCHANGED <<env, config, unit>>

ListStart(tool, limit) ==
    LET top == ClampLimit(limit, ListMax)
    IN  Start(Frame(tool, limit, <<>>, 0, JNull, EmptyDict), Absent,
              Call("get_work_items", ToolType(tool), top, 0, <<>>, JNull, <<>>),
              get_work_items(ToolType(tool), top))

SearchStart(tool, search_term, limit) ==
    LET top == ClampLimit(limit, SearchMax)
    IN  Start(Frame(tool, limit, search_term, 0, JNull, EmptyDict), Absent,
              Call("search_work_items_by_title", ToolType(tool), top, 0, search_term,
                   JNull, <<>>),
              search_work_items_by_title(search_term, ToolType(tool), top))

StateStart(tool, state, limit) ==
    LET top == ClampLimit(limit, ListMax)
    IN  Start(Frame(tool, limit, state, 0, JNull, EmptyDict), Absent,
              Call("get_work_items_by_state", ToolType(tool), top, 0, state, JNull, <<>>),
              get_work_items_by_state(state, ToolType(tool), top))

ByIdStart(tool, id, args, rem) ==
    Start(Frame(tool, 0, <<>>, id, JNull, args), rem,
          Call("get_work_item_by_id", "", 0, id, <<>>, JNull, <<>>),
          get_work_item_by_id(id))

CreateStart(tool, title, args) ==
    Start(Frame(tool, 0, <<>>, 0, title, args), Absent,
          Call("create_work_item", ToolType(tool), 0, 0, <<>>, title,
               CreateFields(tool, args)),
          create_work_item(ToolType(tool), title, CreateFields(tool, args)))

get_user_stories == \E limit \in Limits : ListStart("get_user_stories", limit)

get_test_cases == \E limit \in Limits : ListStart("get_test_cases", limit)

search_stories_by_title ==
    \E t \in Terms, limit \in Limits : SearchStart("search_stories_by_title", t, limit)

search_test_cases_by_title ==
    \E t \in Terms, limit \in Limits : SearchStart("search_test_cases_by_title", t, limit)

get_stories_by_state ==
    \E t \in Terms, limit \in Limits : StateStart("get_stories_by_state", t, limit)

get_test_cases_by_state ==
    \E t \in Terms, limit \in Limits : StateStart("get_test_cases_by_state", t, limit)

get_story_details ==
    \E id \in Ids, rem \in StartItems :
        ByIdStart("get_story_details", id, EmptyDict, rem)

get_test_case_details ==
    \E id \in Ids, rem \in StartItems :
        ByIdStart("get_test_case_details", id, EmptyDict, rem)

update_story ==
    \E id \in Ids, rem \in StartItems, args \in ArgChoices("update_story") :
        ByIdStart("update_story", id, args, rem)

update_test_case ==
    \E id \in Ids, rem \in StartItems, args \in ArgChoices("update_test_case") :
        ByIdStart("update_test_case", id, args, rem)

create_user_story ==
    \E title \in Titles, args \in ArgChoices("create_user_story") :
        CreateStart("create_user_story", title, args)

create_test_case ==
    \E title \in Titles, args \in ArgChoices("create_test_case") :
        CreateStart("create_test_case", title, args)

\* One attempt of the request in flight, and what follows from it.
Attempt(kind) ==
    /\ pc = "http"
    /\ req.kind = kind
    /\ \E ev \in Events(req) :
        LET s == SessionSend(req.method, attempt, ev.fault, ev.resp)
            last == calls[Len(calls)]
        IN  /\ UNCHANGED <<cur, env, config, unit>>
            /\ IF s.act = "retry"
               THEN /\ attempt' = attempt + 1
                    /\ remote' = remote
                    /\ UNCHANGED <<session, pc, req, reqlog, calls, ret>>
               ELSE LET c == ClientResume(req, last.top, s)
                        h == HandlerResume(cur, last.op, c.out)
                        asked == [calls EXCEPT ![Len(calls)].q =
                                     IF req.kind = "wiql" THEN Ans(ev) ELSE @]
                        closed == [asked EXCEPT ![Len(calls)].out = c.out,
                                                ![Len(calls)].last = Ans(ev)]
                    IN  /\ remote' = ev.remote
                        /\ attempt' = 0
                        /\ IF c.more
                           THEN /\ pc' = "http"
                                /\ req' = c.req
                                /\ reqlog' = Append(reqlog, c.req)
                                /\ calls' = asked
                                /\ session' = SessionAfter(c.req)
                                /\ UNCHANGED ret
                           ELSE IF h.more
                           THEN /\ pc' = "http"
                                /\ req' = h.req
                                /\ reqlog' = Append(reqlog, h.req)
                                /\ calls' = Append(closed, h.call)
                                /\ session' = SessionAfter(h.req)
                                /\ UNCHANGED ret
                           ELSE /\ pc' = "done"
                                /\ req' = NoReq
                                /\ calls' = closed
                                /\ ret' = h.text
                                /\ UNCHANGED <<session, reqlog>>

PostQuery == Attempt("wiql")
GetDetails == Attempt("batch")
GetById == Attempt("item")
PatchUpdate == Attempt("patch")
PostCreate == Attempt("create")

\* Another party deletes or retypes the work item between an update
\* handler's fetch and its update request.
RemoteChange ==
    /\ pc = "http"
    /\ req.kind = "patch"
    /\ attempt = 0
    /\ \E it \in Changed(remote) : remote' = it
    /\ UNCHANGED <<session, pc, cur, req, attempt, reqlog, calls, ret, env, config, unit>>

\* The dispatcher hands the text to the caller; the call's frame is gone.
Deliver ==
    /\ pc = "done"
    /\ pc' = "idle"
    /\ remote' = Absent
    /\ cur' = NoFrame
    /\ req' = NoReq
    /\ attempt' = 0
    /\ reqlog' = <<>>
    /\ calls' = <<>>
    /\ ret' = NoRet
    /\ UNCHANGED <<session, env, config, unit>>

Next ==
    \/ get_user_stories
    \/ get_story_details
    \/ search_stories_by_title
    \/ get_stories_by_state
    \/ update_story
    \/ create_user_story
    \/ get_test_cases
    \/ get_test_case_details
    \/ search_test_cases_by_title
    \/ get_test_cases_by_state
    \/ update_test_case
    \/ create_test_case
    \/ PostQuery
    \/ GetDetails
    \/ GetById
    \/ PatchUpdate
    \/ PostCreate
    \/ RemoteChange
    \/ Deliver

Spec == Init /\ [][Next]_vars

----------------------------------------------------------------------------
(* The update handlers alone, with another party at the remote service.    *)
(* A handler is synchronous and every attempt of a request ends, by an     *)
(* answer or by a fault, within the session's timeout: an attempt that can *)
(* be made is made.                                                        *)

RaceNext ==
    \/ update_story
    \/ update_test_case
    \/ GetById
    \/ PatchUpdate
    \/ RemoteChange
    \/ Deliver

RaceSpec == Init /\ [][RaceNext]_vars /\ WF_vars(GetById) /\ WF_vars(PatchUpdate)

----------------------------------------------------------------------------
(* The parsers called directly, on the raw records a response may hold *)

\* A dict with key k holding one of vs, or without the key.
Opt(k, vs) == {EmptyDict} \cup {(k :> v) : v \in vs}

\* An identity as the service renders it, and one without a display name.
Identity == JDict(("displayName" :> JStr("Alice")) @@ ("uniqueName" :> JStr("alice@x.com")))
BareIdentity == JDict(("uniqueName" :> JStr("alice@x.com")))

\* The fields the cases below leave out, all present.
OtherFields ==
    ("System.WorkItemType" :> JStr("User Story"))
    @@ ("System.AreaPath" :> JStr("Area"))
    @@ ("System.IterationPath" :> JStr("Sprint 1"))
    @@ ("System.CreatedDate" :> JStr("2024-01-01T00:00:00Z"))
    @@ ("System.ChangedDate" :> JStr("2024-01-02T00:00:00Z"))
    @@ ("System.Tags" :> JStr("a;b"))
    @@ ("Microsoft.VSTS.TCM.Steps" :> JStr("<steps/>"))
    @@ ("Microsoft.VSTS.TCM.AutomationStatus" :> JStr("Planned"))

\* Field dictionaries: each field missing, present as the service sends
\* it, present as null, or present with a value of another type.
FieldDicts ==
    {t @@ a @@ p @@ d @@ st @@ o :
        t \in Opt("System.Title", {JStr("Login flow"), JNull, JInt(5)}),
        a \in Opt("System.AssignedTo", {JStr("alice@x.com"), Identity, BareIdentity, JNull}),
        p \in Opt("Microsoft.VSTS.Common.Priority", {JInt(2), JStr("2"), JStr("high")}),
        d \in Opt("System.Description", {JStr("As a user")}),
        st \in Opt("System.State", {JStr("Active")}),
        o \in {EmptyDict, OtherFields}}

\* Raw records: with and without an identifier and a field dictionary.
RawRecords ==
    {i @@ f :
        i \in Opt("id", {JInt(101), JInt(0), JInt(-5), JStr("7"), JNull}),
        f \in Opt("fields", {JDict(d) : d \in FieldDicts} \cup {JNull})}

CallParseWorkItem ==
    /\ pc = "idle"
    /\ unit = NoUnit
    /\ \E raw \in RawRecords :
          unit' = [op |-> "parse_work_item", arg |-> raw, out |-> parse_work_item(raw)]
    /\ UNCHANGED <<remote, session, pc, cur, req, attempt, reqlog, calls, ret, env, config>>

CallParseTestCase ==
    /\ pc = "idle"
    /\ unit = NoUnit
    /\ \E raw \in RawRecords :
          unit' = [op |-> "parse_test_case", arg |-> raw, out |-> parse_test_case(raw)]
    /\ UNCHANGED <<remote, session, pc, cur, req, attempt, reqlog, calls, ret, env, config>>

ParserNext == CallParseWorkItem \/ CallParseTestCase

ParserSpec == Init /\ [][ParserNext]_vars

----------------------------------------------------------------------------
(* The client built in any environment, and create_work_item called        *)
(* directly on it                                                          *)

ClientInit ==
    /\ remote = Absent
    /\ session = NoClient
    /\ pc = "idle"
    /\ cur = NoFrame
    /\ req = NoReq
    /\ attempt = 0
    /\ reqlog = <<>>
    /\ calls = <<>>
    /\ ret = NoRet
    /\ env \in Envs
    /\ config = NotImported
    /\ unit = NoUnit

\* import config (client.py and main.py both import it first)
ImportConfig ==
    /\ config.state = "none"
    /\ config' = LoadConfig(env)
    /\ UNCHANGED <<remote, session, pc, cur, req, attempt, reqlog, calls, ret, env, unit>>

\* main(): AzureDevOpsClient(AZURE_DEVOPS_ORG, AZURE_DEVOPS_PROJECT, AZURE_DEVOPS_PAT)
main ==
    /\ config.state = "imported"
    /\ session = NoClient
    /\ session' = NewClient(env, config, config.AZURE_DEVOPS_ORG, AZURE_DEVOPS_PROJECT,
                            config.AZURE_DEVOPS_PAT)
    /\ UNCHANGED <<remote, pc, cur, req, attempt, reqlog, calls, ret, env, config, unit>>

\* The credentials a caller of the constructor may pass.
Pats == {"", "other"}

\* AzureDevOpsClient(organization, project, pat) called with any credential
Construct ==
    /\ config.state = "imported"
    /\ session = NoClient
    /\ \E pat \in Pats :
          session' = NewClient(env, config, config.AZURE_DEVOPS_ORG,
                               AZURE_DEVOPS_PROJECT, pat)
    /\ UNCHANGED <<remote, pc, cur, req, attempt, reqlog, calls, ret, env, config, unit>>

\* The entries a field map may hold: a value, or None.
FieldEntries ==
    {<<k, v>> : k \in {"System.Description"}, v \in {JStr(""), JNull}}
    \cup {<<k, v>> : k \in {"Microsoft.VSTS.Common.Priority"}, v \in {JInt(2), JNull}}
    \cup {<<k, v>> : k \in {"System.State"}, v \in {JStr("New"), JNull}}

\* Field maps of at most MaxArgs entries, in any order, no key twice.
FieldMaps ==
    {m \in UNION {[1 .. n -> FieldEntries] : n \in 0 .. MaxArgs} :
        \A i, j \in 1 .. Len(m) : i # j => m[i][1] # m[j][1]}

\* create_work_item called directly, up to the request it sends.
CallCreateWorkItem ==
    /\ session # NoClient
    /\ pc = "idle"
    /\ unit = NoUnit
    /\ \E t \in Types, title \in Titles, fields \in FieldMaps :
          /\ unit' = [op |-> "create_work_item",
                      arg |-> [work_item_type |-> t, title |-> title, fields |-> fields],
                      out |-> create_work_item(t, title, fields)]
          /\ session' = SessionAfter(create_work_item(t, title, fields))
    /\ UNCHANGED <<remote, pc, cur, req, attempt, reqlog, calls, ret, env, config>>

ClientNext == ImportConfig \/ main \/ Construct \/ CallCreateWorkItem

ClientSpec == ClientInit /\ [][ClientNext]_vars

----------------------------------------------------------------------------
(* Properties *)

Contains(seq, x) == \E i \in 1 .. Len(seq) : seq[i] = x

IsPrefixOf(p, seq) == Len(p) <= Len(seq) /\ SubSeq(seq, 1, Len(p)) = p

QueryOps == {"get_work_items", "search_work_items_by_title", "get_work_items_by_state"}

BatchTools == ListTools \cup SearchTools \cup StateTools

\* The client operation has returned or raised.
Ended(c) == c.out # Pending

\* The operation's last request was answered with an HTTP response.
Answered(c) == Ended(c) /\ c.last.fault = "none"

\* The type-tag of a raw record, "" when it has none.
RawTypeTag(raw) ==
    IF "fields" \in DOMAIN raw /\ "System.WorkItemType" \in DOMAIN raw["fields"][2]
    THEN raw["fields"][2]["System.WorkItemType"][2]
    ELSE ""

\* The fetch of an update handler returned a record.
FetchedRecord == Len(calls) >= 1 /\ Ended(calls[1]) /\ ~calls[1].out.raised /\ ~calls[1].out.none

(* C1, as claimed: a handler returns text and never raises, and whenever   *)
(* the transport client or the parser raised inside it, the text is the    *)
(* handler's prefixed error message.                                       *)
C1_AsClaimed ==
    pc = "done" =>
        /\ ret.done /\ ~ret.raised
        /\ ((\E i \in 1 .. Len(calls) : calls[i].out.raised) \/ ret.perr > 0)
           => IsPrefixOf(ErrorPrefix(cur.tool, cur.id), ret.head) /\ ret.items = <<>>

(* C1, amended: a handler returns text and never raises; when the          *)
(* transport client raised, the text is the handler's prefix followed by   *)
(* the client's message; when the parser raised in a details, update or    *)
(* create handler, the text is the handler's prefixed error message; when  *)
(* the parser raised on a record of a list, search or filter batch, the    *)
(* record is skipped and the handler returns its success text.             *)
C1_HandlerReturnsText ==
    /\ ~ret.raised
    /\ pc = "done" =>
        /\ ret.done
        /\ \A i \in 1 .. Len(calls) :
              calls[i].out.raised =>
                  /\ ret.head = ErrorPrefix(cur.tool, cur.id) \o calls[i].out.msg
                  /\ ret.items = <<>>
        /\ (ret.perr > 0 /\ cur.tool \notin BatchTools) =>
              /\ IsPrefixOf(ErrorPrefix(cur.tool, cur.id), ret.head)
              /\ Len(ret.head) > Len(ErrorPrefix(cur.tool, cur.id))
              /\ ret.items = <<>>
        /\ (ret.perr > 0 /\ cur.tool \in BatchTools) =>
              /\ ret.head[1] \in {"Retrieved ", "Found "}
              /\ ret.head[2] = PyStrInt(Len(ret.items))
              /\ Len(ret.items) = Len(calls[1].out.recs) - ret.perr

C1_Witness ==
    /\ pc = "done"
    /\ cur.tool = "update_story"
    /\ Len(calls) = 2
    /\ calls[2].out.raised
    /\ ret.head = ErrorPrefix(cur.tool, cur.id) \o calls[2].out.msg

(* C2: in update_story and update_test_case, update_work_item is called    *)
(* only after get_work_item_by_id, in the same call, returned a record     *)
(* whose type-tag is the handler's kind, and at most once; when the fetch  *)
(* returns None or a record of another type-tag the handler returns its    *)
(* not-found / wrong-type text and update_work_item is not called.         *)
C2_UpdateOnlyAfterTypeCheck ==
    cur.tool \in UpdateTools =>
        /\ \A i \in 1 .. Len(calls) :
              calls[i].op = "update_work_item" =>
                  /\ i = 2
                  /\ calls[1].op = "get_work_item_by_id"
                  /\ FetchedRecord
                  /\ RawTypeTag(calls[1].out.recs[1]) = ToolType(cur.tool)
        /\ (pc = "done" /\ Ended(calls[1]) /\ calls[1].out.none) =>
              /\ Len(calls) = 1
              /\ ret.head = <<IF cur.tool = "update_story" THEN "User story with ID "
                              ELSE "Test case with ID ",
                              PyStrInt(cur.id), " not found">>
        /\ (pc = "done" /\ FetchedRecord
            /\ RawTypeTag(calls[1].out.recs[1]) # ToolType(cur.tool)) =>
              /\ Len(calls) = 1
              /\ ret.head = <<"Work item ", PyStrInt(cur.id),
                              IF cur.tool = "update_story"
                              THEN " is not a user story (it's a "
                              ELSE " is not a test case (it's a ",
                              RawTypeTag(calls[1].out.recs[1]), ")">>

C2_Witness ==
    /\ pc = "done"
    /\ cur.tool = "update_test_case"
    /\ FetchedRecord
    /\ RawTypeTag(calls[1].out.recs[1]) = "User Story"
    /\ Len(calls) = 1
    /\ ret.head[3] = " is not a test case (it's a "

(* C3: when the remote service answers 404, get_work_item_by_id returns    *)
(* None and does not raise, and update_work_item raises an error whose     *)
(* message says the work item was not found.                               *)
C3_NotFoundSentinelAndError ==
    \A i \in 1 .. Len(calls) :
        (Answered(calls[i]) /\ calls[i].last.status = 404) =>
            /\ calls[i].op = "get_work_item_by_id" =>
                  calls[i].out.none /\ ~calls[i].out.raised
            /\ calls[i].op = "update_work_item" =>
                  /\ calls[i].out.raised /\ ~calls[i].out.none
                  /\ \E k \in 1 .. Len(calls[i].out.msg) - 2 :
                        SubSeq(calls[i].out.msg, k, k + 2)
                            = <<"Work item ", PyStrInt(calls[i].id), " not found">>

C3_Witness ==
    /\ Len(calls) = 2
    /\ calls[1].out.none = FALSE
    /\ calls[2].op = "update_work_item"
    /\ Answered(calls[2])
    /\ calls[2].last.status = 404
    /\ calls[2].out.raised

(* C4, as claimed: every failure of a transport client operation is raised *)
(* as one of the kinds tls, proxy, connection, timeout, http-status,       *)
(* unclassified, and the kind reported is the kind of the failure that     *)
(* occurred.                                                               *)
C4_AsClaimed ==
    \A i \in 1 .. Len(calls) :
        (Ended(calls[i]) /\ calls[i].out.raised) =>
            /\ ErrorKind(calls[i].out.msg)
                  \in {"tls", "proxy", "connection", "timeout", "http-status", "unclassified"}
            /\ calls[i].out.cause \in {"tls", "proxy", "connection", "timeout", "http-status"}
                  => ErrorKind(calls[i].out.msg) = calls[i].out.cause

(* C5, as claimed: whenever a transport client operation's request is      *)
(* finally answered with a status outside 2xx (404 to get_work_item_by_id  *)
(* and update_work_item aside), the operation raises an http-status error  *)
(* whose message holds the status code and the response body.              *)
C5_AsClaimed ==
    \A i \in 1 .. Len(calls) :
        (/\ Answered(calls[i])
         /\ ~(calls[i].last.status >= 200 /\ calls[i].last.status < 300)
         /\ ~(calls[i].last.status = 404
              /\ calls[i].op \in {"get_work_item_by_id", "update_work_item"})) =>
            /\ calls[i].out.raised
            /\ ErrorKind(calls[i].out.msg) = "http-status"
            /\ Contains(calls[i].out.msg, PyStrInt(calls[i].last.status))
            /\ Contains(calls[i].out.msg, calls[i].last.text)

\* min(max(1, limit), cap), written out
Clamped(limit, cap) == IF limit < 1 THEN 1 ELSE IF limit > cap THEN cap ELSE limit

(* C6: the list and filter-by-state handlers pass top = min(max(1, limit), *)
(* 200) and the search handlers top = min(max(1, limit), 100).             *)
C6_LimitClamped ==
    \A i \in 1 .. Len(calls) :
        calls[i].op \in QueryOps =>
            /\ cur.tool \in ListTools \cup StateTools =>
                  /\ calls[i].top = Clamped(cur.limit, 200)
                  /\ calls[i].top >= 1 /\ calls[i].top <= 200
            /\ cur.tool \in SearchTools =>
                  /\ calls[i].top = Clamped(cur.limit, 100)
                  /\ calls[i].top >= 1 /\ calls[i].top <= 100
            /\ cur.limit = 0 => calls[i].top = 1

C6_Witness ==
    /\ cur.tool = "search_test_cases_by_title"
    /\ cur.limit = 9999
    /\ Len(calls) = 1
    /\ calls[1].top = 100

(* C7: when the query request of a query operation succeeds with n >= 1    *)
(* identifiers, the batch request asks for exactly the first min(top, n)   *)
(* of them, in the query's order.                                          *)
C7_BatchAsksFirstIds ==
    /\ \A k \in 1 .. Len(reqlog) :
          reqlog[k].kind = "batch" =>
              LET c == calls[1]
                  n == Len(c.q.ids)
                  m == IF c.top < n THEN c.top ELSE n
              IN  /\ k = 2
                  /\ n >= 1
                  /\ Len(reqlog[k].ids) = m
                  /\ \A j \in 1 .. m : reqlog[k].ids[j] = PyStrInt(c.q.ids[j])
    /\ \A i \in 1 .. Len(calls) :
          (/\ calls[i].op \in QueryOps
           /\ calls[i].q.fault = "none" /\ calls[i].q.status = 200 /\ calls[i].q.valid
           /\ Len(calls[i].q.ids) >= 1) =>
              Len(reqlog) = 2 /\ reqlog[2].kind = "batch"

C7_Witness ==
    /\ Len(reqlog) = 2
    /\ reqlog[2].kind = "batch"
    /\ Len(calls[1].q.ids) = 2
    /\ calls[1].top = 1
    /\ reqlog[2].ids = <<PyStrInt(calls[1].q.ids[1])>>

(* C8: when the query request of a query operation succeeds with zero      *)
(* identifiers, the operation returns an empty sequence and does not       *)
(* raise (and sends no batch request).                                     *)
C8_EmptyQueryReturnsEmpty ==
    \A i \in 1 .. Len(calls) :
        (/\ calls[i].op \in QueryOps
         /\ calls[i].q.fault = "none" /\ calls[i].q.status = 200 /\ calls[i].q.valid
         /\ Len(calls[i].q.ids) = 0) =>
            /\ Ended(calls[i])
            /\ ~calls[i].out.raised /\ ~calls[i].out.none
            /\ calls[i].out.recs = <<>>
            /\ Len(reqlog) = 1

C8_Witness ==
    /\ pc = "done"
    /\ cur.tool = "get_stories_by_state"
    /\ calls[1].q.status = 200 /\ calls[1].q.valid /\ Len(calls[1].q.ids) = 0
    /\ calls[1].out.recs = <<>> /\ ~calls[1].out.raised

\* The conditions a query is meant to hold, as the query language reads them.
ConditionsMeant(r) ==
    <<Sym(SelectFrom), Lit(session.project), Sym(AndType), Lit(<<r.work_item_type>>)>>
    \o (IF r.op = "search_work_items_by_title" THEN <<Sym(AndTitle), Lit(cur.term)>>
        ELSE IF r.op = "get_work_items_by_state" THEN <<Sym(AndState), Lit(cur.term)>>
        ELSE <<>>)
    \o <<Sym(OrderBy)>>

(* C9, as claimed: for every state value and search term the query filters *)
(* by project and type-tag and by exactly the one condition on the         *)
(* caller's value, which contributes only the literal compared.            *)
C9_AsClaimed ==
    \A k \in 1 .. Len(reqlog) :
        reqlog[k].kind = "wiql" => WiqlRead(reqlog[k].query) = ConditionsMeant(reqlog[k])

StatePath == <<"/fields/", "System.State">>

(* C10: the patch document of every create_user_story / create_test_case   *)
(* call holds exactly one operation on the state field: an "add" of the    *)
(* default ("New" / "Design"), after the operations for the caller's       *)
(* fields.                                                                 *)
C10_CreateForcesDefaultState ==
    \A k \in 1 .. Len(reqlog) :
        reqlog[k].kind = "create" =>
            LET doc == reqlog[k].doc
                n == Len(doc)
            IN  /\ n >= 3
                /\ {i \in 1 .. n : doc[i].path = StatePath} = {n}
                /\ doc[n].op = "add"
                /\ doc[n].value = JStr(IF cur.tool = "create_test_case" THEN "Design" ELSE "New")
                /\ \A p \in DOMAIN cur.args :
                      ~IsNone(cur.args[p]) =>
                          \E j \in 1 .. n - 1 :
                              doc[j].op = "add" /\ doc[j].value = cur.args[p]
                                /\ doc[j].path # StatePath

C10_Witness ==
    /\ cur.tool = "create_test_case"
    /\ Len(reqlog) = 1
    /\ Len(reqlog[1].doc) = 5
    /\ ~IsNone(cur.args["priority"])
    /\ reqlog[1].doc[5] = PatchOp("add", "System.State", JStr("Design"))

----------------------------------------------------------------------------
(* Properties of the parsers (ParserSpec) *)

Parsers == {"parse_work_item", "parse_test_case"}

\* A parser was called directly; it returned a record.
ParserCalled == unit.op \in Parsers
ParserReturned == ParserCalled /\ unit.out.ok

\* The field dictionary of the raw record given to the parser.
ArgFields ==
    IF "fields" \in DOMAIN unit.arg /\ unit.arg["fields"][1] = "dict"
    THEN unit.arg["fields"][2]
    ELSE EmptyDict

(* C11, as claimed: a parser returns a record for every raw record that    *)
(* holds an identifier, whatever else the record holds, and raises exactly *)
(* when the identifier is missing.                                         *)
C11_AsClaimed ==
    ParserCalled => (unit.out.ok <=> "id" \in DOMAIN unit.arg)

(* C12: the assignee of a parsed record is the display-name sub-field when *)
(* the raw assignee is a structured object, the string itself when it is   *)
(* a string, and absent (not the empty string) when the raw record has no  *)
(* assignee field.                                                         *)
C12_AssigneePolymorphic ==
    ParserReturned =>
        LET f == ArgFields
            got == unit.out.rec.assigned_to
        IN  /\ "System.AssignedTo" \notin DOMAIN f => got = JNull /\ got # JStr("")
            /\ ("System.AssignedTo" \in DOMAIN f /\ f["System.AssignedTo"][1] = "str")
                  => got = f["System.AssignedTo"]
            /\ ("System.AssignedTo" \in DOMAIN f /\ f["System.AssignedTo"][1] = "dict")
                  => got = (IF "displayName" \in DOMAIN f["System.AssignedTo"][2]
                            THEN f["System.AssignedTo"][2]["displayName"]
                            ELSE JNull)

C12_Witness ==
    /\ unit.op = "parse_test_case"
    /\ unit.out.ok
    /\ "System.AssignedTo" \in DOMAIN ArgFields
    /\ ArgFields["System.AssignedTo"] = Identity
    /\ unit.out.rec.assigned_to = JStr("Alice")

\* The record's attributes that default to the empty string, and those
\* that default to absent, each with the raw field it is read from.
EmptyDefaulted ==
    {<<"title", "System.Title">>, <<"work_item_type", "System.WorkItemType">>,
     <<"state", "System.State">>, <<"area_path", "System.AreaPath">>,
     <<"iteration_path", "System.IterationPath">>,
     <<"created_date", "System.CreatedDate">>, <<"changed_date", "System.ChangedDate">>}

AbsentDefaulted ==
    {<<"assigned_to", "System.AssignedTo">>, <<"description", "System.Description">>,
     <<"tags", "System.Tags">>}
    \cup IF unit.op = "parse_test_case"
         THEN {<<"test_steps", "Microsoft.VSTS.TCM.Steps">>,
               <<"priority", "Microsoft.VSTS.Common.Priority">>,
               <<"automation_status", "Microsoft.VSTS.TCM.AutomationStatus">>}
         ELSE {}

\* A missing field reads as its default.
MissingDefaulted ==
    /\ \A a \in EmptyDefaulted :
          a[2] \notin DOMAIN ArgFields => unit.out.rec[a[1]] = JStr("")
    /\ \A a \in AbsentDefaulted :
          a[2] \notin DOMAIN ArgFields => unit.out.rec[a[1]] = JNull

C20_AsClaimed ==
    ParserReturned => unit.out.rec.id[1] = "int" /\ unit.out.rec.id[2] > 0

----------------------------------------------------------------------------
(* Properties of the handlers (Spec), continued *)

\* The records of a batch that parse, in the batch's order.
ParsedOf(tool, recs) ==
    LET Parses(raw) == Parse(tool, raw).ok
        kept == SelectSeq(recs, Parses)
    IN  [i \in 1 .. Len(kept) |-> Parse(tool, kept[i]).rec]

(* C14: in the list, search and filter handlers a record of the batch that *)
(* does not parse is skipped: the handler returns its success text over    *)
(* exactly the records that parsed, in batch order, and the count in the   *)
(* text is their number.                                                   *)
C14_UnparseableSkipped ==
    (/\ pc = "done"
     /\ cur.tool \in BatchTools
     /\ ~calls[1].out.raised) =>
        /\ ret.done
        /\ ret.head[1] \in {"Retrieved ", "Found "}
        /\ ret.items = ParsedOf(cur.tool, calls[1].out.recs)
        /\ ret.head[2] = PyStrInt(Len(ret.items))
        /\ Len(ret.items) + ret.perr = Len(calls[1].out.recs)

C14_Witness ==
    /\ pc = "done"
    /\ cur.tool = "get_test_cases_by_state"
    /\ Len(calls[1].out.recs) = 2
    /\ "id" \notin DOMAIN calls[1].out.recs[1]
    /\ Len(ret.items) = 1
    /\ ret.items[1].id = calls[1].out.recs[2]["id"]
    /\ ret.head[2] = "1"

(* C15, as claimed: when the query returns the identifiers [101, 102] and  *)
(* the batch fetch two full records, get_user_stories returns "Retrieved 2 *)
(* user stories:" and both records, and the rendering of each holds the    *)
(* record's title "Login flow", its state "Active" and its priority 2.     *)
C15_AsClaimed ==
    (/\ pc = "done"
     /\ cur.tool = "get_user_stories"
     /\ calls[1].q.ids = <<101, 102>>
     /\ ~calls[1].out.raised
     /\ Len(calls[1].out.recs) = 2
     /\ \A i \in 1 .. 2 : DOMAIN calls[1].out.recs[i] = {"id", "fields"}) =>
        /\ ret.head = <<"Retrieved ", "2", " user stories:\n">>
        /\ Len(ret.items) = 2
        /\ \A i \in 1 .. 2 :
              /\ ret.items[i].id = JInt(100 + i)
              /\ ret.items[i].title = JStr("Login flow")
              /\ ret.items[i].state = JStr("Active")
              /\ "priority" \in DOMAIN ret.items[i]
              /\ ret.items[i]["priority"] = JInt(2)

\* The position of the parameter's operation in a patch document.
OpsOn(doc, field_path) == {i \in 1 .. Len(doc) : doc[i].path = <<"/fields/", field_path>>}

(* C16: the patch document of every update request holds exactly one       *)
(* "replace" operation per parameter that is not None, on the path         *)
(* "/fields/<field name of the parameter>" and with the caller's value,    *)
(* and no operation for a parameter that is None.                          *)
C16_UpdateDocPerParameter ==
    \A k \in 1 .. Len(reqlog) :
        reqlog[k].kind = "patch" =>
            LET doc == reqlog[k].doc
                map == Mapping(cur.tool)
                given == {m \in 1 .. Len(map) : ~IsNone(cur.args[map[m][1]])}
            IN  /\ cur.tool \in UpdateTools
                /\ Len(doc) = Cardinality(given)
                /\ \A i \in 1 .. Len(doc) : doc[i].op = "replace"
                /\ \A m \in 1 .. Len(map) :
                      IF m \in given
                      THEN \E i \in 1 .. Len(doc) :
                              /\ OpsOn(doc, map[m][2]) = {i}
                              /\ doc[i].value = cur.args[map[m][1]]
                      ELSE OpsOn(doc, map[m][2]) = {}
                /\ ~IsNone(cur.args["priority"]) =>
                      Cardinality(OpsOn(doc, "Microsoft.VSTS.Common.Priority")) = 1
                /\ ~IsNone(cur.args["state"]) =>
                      Cardinality(OpsOn(doc, "System.State")) = 1

C16_Witness ==
    /\ cur.tool = "update_test_case"
    /\ Len(reqlog) = 2
    /\ reqlog[2].kind = "patch"
    /\ reqlog[2].doc = <<PatchOp("replace", "System.State", JStr("Active")),
                         PatchOp("replace", "Microsoft.VSTS.Common.Priority", JInt(2))>>

----------------------------------------------------------------------------
(* Properties of the client (ClientSpec) *)

CreateCalled == unit.op = "create_work_item"

(* C17: the request of create_work_item(type, title, fields) is one patch  *)
(* document: an "add" of the title, an "add" of the type, then one "add"   *)
(* per entry of fields whose value is not None, in the order of fields; an *)
(* entry whose value is None gives no operation and no operation is a      *)
(* "replace".                                                              *)
C17_CreateDocShape ==
    CreateCalled =>
        LET doc == unit.out.doc
            HasValue(entry) == entry[2] # JNull
            kept == SelectSeq(unit.arg.fields, HasValue)
        IN  /\ unit.out.kind = "create" /\ unit.out.method = "POST"
            /\ Len(doc) = 2 + Len(kept)
            /\ doc[1] = [op |-> "add", path |-> <<"/fields/", "System.Title">>,
                         value |-> unit.arg.title]
            /\ doc[2] = [op |-> "add", path |-> <<"/fields/", "System.WorkItemType">>,
                         value |-> JStr(unit.arg.work_item_type)]
            /\ \A i \in 1 .. Len(kept) :
                  doc[2 + i] = [op |-> "add", path |-> <<"/fields/", kept[i][1]>>,
                                value |-> kept[i][2]]
            /\ \A i \in 1 .. Len(doc) : doc[i].op = "add" /\ doc[i].value # JNull

C17_Witness ==
    /\ CreateCalled
    /\ unit.arg.fields = << <<"System.Description", JNull>>,
                            <<"Microsoft.VSTS.Common.Priority", JInt(2)>> >>
    /\ Len(unit.out.doc) = 3
    /\ unit.out.doc[3].path = <<"/fields/", "Microsoft.VSTS.Common.Priority">>

\* The environment sets the flag; the bundle path it configures.
FlagSet == env.AZURE_DEVOPS_DISABLE_SSL_VERIFY \in {"true", "TRUE"}
BundlePath ==
    IF env.SSL_CERT_FILE # "" THEN env.SSL_CERT_FILE
    ELSE IF env.REQUESTS_CA_BUNDLE # "" THEN env.REQUESTS_CA_BUNDLE
    ELSE env.CURL_CA_BUNDLE

(* C18: after construction session.verify holds exactly one policy, the    *)
(* first that applies of: verification off when the disable flag is set;   *)
(* the configured bundle path (the first set of SSL_CERT_FILE,             *)
(* REQUESTS_CA_BUNDLE, CURL_CA_BUNDLE) when that path exists; the default  *)
(* trust store.  A configured path that does not exist gives the default,  *)
(* and the flag wins over a configured bundle.                             *)
C18_TlsPolicyFirstMatch ==
    session # NoClient =>
        /\ FlagSet => session.verify = "False"
        /\ (~FlagSet /\ BundlePath = CaBundle) => session.verify = CaBundle
        /\ (~FlagSet /\ BundlePath \in {"", MissingBundle})
              => session.verify \in {"certifi", "True"}
        /\ session.verify \in {"False", CaBundle, "certifi", "True"}

C18_Witness ==
    /\ session # NoClient
    /\ FlagSet
    /\ BundlePath = CaBundle
    /\ session.verify = "False"

(* C19, as claimed: no client exists whose credential is empty.            *)
C19_AsClaimed ==
    session # NoClient => session.headers.Authorization # <<"Basic ", "b64(", ":", "", ")">>

----------------------------------------------------------------------------
(* Properties of the handlers (Spec): calls, session, update *)

\* The transport operation a list, search or filter handler calls.
QueryOpOf(tool) ==
    IF tool \in ListTools THEN "get_work_items"
    ELSE IF tool \in SearchTools THEN "search_work_items_by_title"
    ELSE "get_work_items_by_state"

(* C21: in one handler call each transport operation is invoked at most    *)
(* once (list, search, filter: the one query operation; details: one       *)
(* get_work_item_by_id; update: one get_work_item_by_id, then at most one  *)
(* update_work_item; create: one create_work_item), and after an operation *)
(* raised the handler invokes no other and returns its error text.         *)
C21_NoHandlerRetry ==
    pc # "idle" =>
        /\ Len(calls) >= 1
        /\ cur.tool \in BatchTools =>
              Len(calls) = 1 /\ calls[1].op = QueryOpOf(cur.tool)
        /\ cur.tool \in DetailTools =>
              Len(calls) = 1 /\ calls[1].op = "get_work_item_by_id"
        /\ cur.tool \in UpdateTools =>
              /\ Len(calls) <= 2
              /\ calls[1].op = "get_work_item_by_id"
              /\ Len(calls) = 2 => calls[2].op = "update_work_item"
        /\ cur.tool \in CreateTools =>
              Len(calls) = 1 /\ calls[1].op = "create_work_item"
        /\ \A i \in 1 .. Len(calls) - 1 : Ended(calls[i]) /\ ~calls[i].out.raised
        /\ (Ended(calls[Len(calls)]) /\ calls[Len(calls)].out.raised) =>
              /\ pc = "done"
              /\ IsPrefixOf(ErrorPrefix(cur.tool, cur.id), ret.head)

C21_Witness ==
    /\ pc = "done"
    /\ cur.tool = "create_user_story"
    /\ Len(calls) = 1
    /\ calls[1].out.raised
    /\ Len(reqlog) = 1
    /\ ret.head[1] = "Error creating user story: "

(* C22: after any sequence of transport operations the client's           *)
(* organization, project, base URL, timeout, TLS setting and the session's *)
(* default headers are those of construction; the patch content-type of   *)
(* create and update is on that one request only, and the requests of     *)
(* query and fetch operations carry the session's JSON content-type.      *)
C22_SessionUnchanged ==
    /\ session.organization = NewSession.organization
    /\ session.project = NewSession.project
    /\ session.base_url = NewSession.base_url
    /\ session.timeout = NewSession.timeout
    /\ session.verify = NewSession.verify
    /\ session.headers.Authorization = NewSession.headers.Authorization
    /\ session.headers.UserAgent = NewSession.headers.UserAgent
    /\ session.headers.ContentType = "application/json"
    /\ \A k \in 1 .. Len(reqlog) :
          reqlog[k].ctype = IF reqlog[k].kind \in {"patch", "create"}
                            THEN "application/json-patch+json"
                            ELSE "application/json"

C22_Witness ==
    /\ pc = "done"
    /\ cur.tool = "update_story"
    /\ Len(reqlog) = 2
    /\ reqlog[1].ctype = "application/json"
    /\ reqlog[2].ctype = "application/json-patch+json"
    /\ ~calls[2].out.raised
    /\ session.headers.ContentType = "application/json"

\* Every optional parameter of the running update call is None.
NoFieldsGiven == \A p \in DOMAIN cur.args : cur.args[p] = JNull

(* C23: in update_story and update_test_case called with every optional   *)
(* parameter None, when the fetched record has the handler's type-tag the  *)
(* handler returns the "No fields provided for update" text and            *)
(* update_work_item is not called; the check comes after the existence and *)
(* type checks: when the identifier does not exist or the record has       *)
(* another type-tag, the not-found / wrong-type text is returned.          *)
C23_NoFieldsAfterChecks ==
    (/\ pc = "done"
     /\ cur.tool \in UpdateTools
     /\ NoFieldsGiven
     /\ ~calls[1].out.raised) =>
        /\ Len(calls) = 1
        /\ \A k \in 1 .. Len(reqlog) : reqlog[k].kind # "patch"
        /\ ret.items = <<>>
        /\ IF calls[1].out.none
           THEN ret.head = <<IF cur.tool = "update_story" THEN "User story with ID "
                             ELSE "Test case with ID ",
                             PyStrInt(cur.id), " not found">>
           ELSE IF RawTypeTag(calls[1].out.recs[1]) # ToolType(cur.tool)
           THEN ret.head = <<"Work item ", PyStrInt(cur.id),
                             IF cur.tool = "update_story"
                             THEN " is not a user story (it's a "
                             ELSE " is not a test case (it's a ",
                             RawTypeTag(calls[1].out.recs[1]), ")">>
           ELSE ret.head =
                   <<"No fields provided for update. Please specify at least one field to update.">>

C23_Witness ==
    /\ pc = "done"
    /\ cur.tool = "update_story"
    /\ NoFieldsGiven
    /\ FetchedRecord
    /\ RawTypeTag(calls[1].out.recs[1]) = "User Story"
    /\ Len(calls) = 1
    /\ ret.head[1] = "No fields provided for update. Please specify at least one field to update."

----------------------------------------------------------------------------
(* Properties of the update handlers under RaceSpec *)

\* The update request is in flight and the remote work item is no longer
\* what get_work_item_by_id returned: deleted, or of another type-tag.
Raced ==
    /\ pc = "http"
    /\ req.kind = "patch"
    /\ FetchedRecord
    /\ remote.type # RawTypeTag(calls[1].out.recs[1])

\* The update request was answered 404 after the fetch had found the item.
UpdateAnswered404 ==
    /\ pc = "done"
    /\ cur.tool \in UpdateTools
    /\ Len(calls) = 2
    /\ FetchedRecord
    /\ Answered(calls[2])
    /\ calls[2].last.status = 404

\* The handler never raises; after a 404 to the update request it returns
\* its "Error updating ..." text saying the work item was not found, and
\* the remote service holds no item: nothing was applied.
RaceOutcome ==
    /\ ~ret.raised
    /\ UpdateAnswered404 =>
          /\ ret.done
          /\ IsPrefixOf(<<IF cur.tool = "update_story" THEN "Error updating user story "
                          ELSE "Error updating test case ",
                          PyStrInt(cur.id), ": ">>, ret.head)
          /\ \E k \in 1 .. Len(ret.head) - 2 :
                SubSeq(ret.head, k, k + 2) = <<"Work item ", PyStrInt(cur.id), " not found">>
          /\ ret.items = <<>>
          /\ remote = Absent

(* C24: the fetch and the update of update_story / update_test_case are    *)
(* two requests: when another party deletes or retypes the work item       *)
(* between them, the handler still ends by returning a text and never      *)
(* raises, and when the update request is answered 404 the text is the     *)
(* "Error updating ..." text saying the work item was not found, with no   *)
(* change applied.                                                         *)
C24_RaceEndsInErrorText ==
    /\ []RaceOutcome
    /\ Raced ~> (pc = "done" /\ ret.done /\ ~ret.raised)

C24_Witness ==
    /\ UpdateAnswered404
    /\ cur.tool = "update_test_case"
    /\ remote = Absent
    /\ ret.head[1] = "Error updating test case "
    /\ Contains(ret.head, " not found")

====
